---- MODULE Spec2Model ----
(***************************************************************************)
(* Model of the command validation engine of gemini-autonomous             *)
(* (security.py) and of its caller ToolManager.execute_bash                *)
(* (gemini_tools.py).                                                      *)
(*                                                                         *)
(* A string is a sequence of atoms.  An atom is either one character that  *)
(* the code treats specially (space, ; & | quotes \ - = / .) or one        *)
(* indivisible run of ordinary word characters ("ls", "init.sh", "+x").    *)
(* No atom of the alphabets used is a concatenation of other atoms, so two *)
(* strings are equal as texts exactly when they are equal as sequences.    *)
(***************************************************************************)
EXTENDS Integers, Sequences, FiniteSets, TLC

\* ------------------------------------------------------------------------
\* Bounds of the model
\* ------------------------------------------------------------------------

\* longest command string, in atoms
MaxLen == 5

\* ------------------------------------------------------------------------
\* Characters and Python's str helpers
\* ------------------------------------------------------------------------

SP == " "
DQ == "\""
SQ == "'"
BS == "\\"

\* shlex.whitespace, and what \s, str.strip and str.split treat as blank
Whitespace == {" ", "\t", "\r", "\n"}

\* the characters of the regular expressions' classes ["\'], shlex.quotes
Quotes == {DQ, SQ}

\* s[a..b], empty when a > b
Slice(s, a, b) == IF a > b THEN <<>> ELSE SubSeq(s, a, b)

\* number of consecutive whitespace characters of s from position p on
RECURSIVE WsRun(_, _)
WsRun(s, p) ==
    IF p <= Len(s) /\ s[p] \in Whitespace THEN 1 + WsRun(s, p + 1) ELSE 0

\* number of consecutive whitespace characters of s ending at position p
RECURSIVE WsRunBack(_, _)
WsRunBack(s, p) ==
    IF p >= 1 /\ s[p] \in Whitespace THEN 1 + WsRunBack(s, p - 1) ELSE 0

\* str.strip()
Strip(s) ==
    LET a == WsRun(s, 1)
    IN  IF a = Len(s) THEN <<>>
        ELSE Slice(s, a + 1, Len(s) - WsRunBack(s, Len(s)))

\* str.startswith(c) for a one-character c
StartsWith(s, c) == Len(s) > 0 /\ s[1] = c

\* c in s
Contains(s, c) == \E i \in 1..Len(s) : s[i] = c

\* needle occurs in hay as a contiguous run (needle in hay, for strings)
IsSubstring(needle, hay) ==
    \E i \in 0..(Len(hay) - Len(needle)) :
        \A j \in 1..Len(needle) : hay[i + j] = needle[j]

\* basename that leaves the directory part on the token
MutBasenameKeepsPath(t) == t

\* os.path.basename: what follows the last "/"
RECURSIVE Basename(_)
Basename(t) ==
    IF ~Contains(t, "/") THEN t
    ELSE Basename(Tail(t))

\* str.split()[0]: the first whitespace-separated word; <<>> stands for the
\* IndexError of indexing the empty list
FirstWord(s) ==
    LET a == WsRun(s, 1)
        rest == Slice(s, a + 1, Len(s))
        n == CHOOSE k \in 0..Len(rest) :
                /\ \A i \in 1..k : rest[i] \notin Whitespace
                /\ (k = Len(rest) \/ rest[k + 1] \in Whitespace)
    IN  Slice(rest, 1, n)

\* ------------------------------------------------------------------------
\* re.split on the two separator patterns of security.py
\* ------------------------------------------------------------------------

\* The position just after a match of  (?<!["\'])\s*;\s*(?!["\'])  that
\* starts at position p of s, or 0 when the pattern does not match at p.
\* The first \s* must take the whole blank run (the next character has to be
\* the semicolon); the second \s* is greedy and gives blanks back until the
\* negative lookahead holds.
SemiMatchEnd(s, p) ==
    LET j == p + WsRun(s, p)
        behind == p = 1 \/ s[p - 1] \notin Quotes
        ahead(e) == e > Len(s) \/ s[e] \notin Quotes
        ms == {m \in 0..WsRun(s, j + 1) : ahead(j + 1 + m)}
    IN  IF behind /\ j <= Len(s) /\ s[j] = ";" /\ ms # {}
        THEN j + 1 + (CHOOSE m \in ms : \A m2 \in ms : m2 <= m)
        ELSE 0

\* The position just after a match of  \s*(?:&&|\|\|)\s*  that starts at
\* position p of s, or 0 when the pattern does not match at p.
AndOrMatchEnd(s, p) ==
    LET j == p + WsRun(s, p)
    IN  IF /\ j + 1 <= Len(s)
           /\ \/ (s[j] = "&" /\ s[j + 1] = "&")
              \/ (s[j] = "|" /\ s[j + 1] = "|")
        THEN j + 2 + WsRun(s, j + 2)
        ELSE 0

MatchEnd(pat, s, p) ==
    IF pat = "semi" THEN SemiMatchEnd(s, p) ELSE AndOrMatchEnd(s, p)

\* re.split(pat, s): the pieces between the leftmost non-overlapping
\* matches; cur is where the current piece starts, p the position tried.
RECURSIVE ReSplitFrom(_, _, _, _)
ReSplitFrom(pat, s, cur, p) ==
    IF p > Len(s) THEN << Slice(s, cur, Len(s)) >>
    ELSE LET e == MatchEnd(pat, s, p)
         IN  IF e = 0 THEN ReSplitFrom(pat, s, cur, p + 1)
             ELSE << Slice(s, cur, p - 1) >> \o ReSplitFrom(pat, s, e, e)

ReSplit(pat, s) == ReSplitFrom(pat, s, 1, 1)

\* the stripped, non-empty members of a list of pieces, in order
\* StripNonEmpty with the pieces kept as they were cut, not stripped
RECURSIVE MutStripNonEmptyKeepsBlanks(_)
MutStripNonEmptyKeepsBlanks(pieces) ==
    IF pieces = <<>> THEN <<>>
    ELSE (IF Strip(Head(pieces)) # <<>> THEN << Head(pieces) >> ELSE <<>>)
         \o MutStripNonEmptyKeepsBlanks(Tail(pieces))

RECURSIVE StripNonEmpty(_)
StripNonEmpty(pieces) ==
    IF pieces = <<>> THEN <<>>
    ELSE LET sub == Strip(Head(pieces))
         IN  (IF sub # <<>> THEN << sub >> ELSE <<>>)
             \o StripNonEmpty(Tail(pieces))

RECURSIVE Flatten(_)
Flatten(ss) == IF ss = <<>> THEN <<>> ELSE Head(ss) \o Flatten(Tail(ss))

\* split_command_segments: split on && and ||, then each piece on ;
split_command_segments(command_string) ==
    LET segments == ReSplit("andor", command_string)
        subs == [i \in 1..Len(segments) |-> ReSplit("semi", segments[i])]
    IN  StripNonEmpty(Flatten(subs))

\* ------------------------------------------------------------------------
\* shlex.split(s): POSIX mode, whitespace_split, no comment characters
\* ------------------------------------------------------------------------

\* shlex.read_token run to the end of the input.  state is shlex's state:
\* "ws" (its ' '), "a" (in a word), a quote character, or "esc" (after the
\* escape character, with escapedstate the state to go back to).  tok is
\* the token being built, quoted whether it holds a quoted part, out the
\* tokens emitted so far.
RECURSIVE ShlexRun(_, _, _, _, _, _, _)
ShlexRun(s, i, state, escapedstate, tok, quoted, out) ==
    LET emit == IF tok # <<>> \/ quoted THEN Append(out, tok) ELSE out
    IN
    IF i > Len(s) THEN
        IF state \in Quotes \/ state = "esc"
        THEN [ok |-> FALSE, tokens |-> <<>>]
        ELSE [ok |-> TRUE, tokens |-> emit]
    ELSE
    LET c == s[i] IN
    IF state = "ws" THEN
        IF c \in Whitespace THEN ShlexRun(s, i + 1, "ws", "ws", <<>>, FALSE, emit)
        ELSE IF c = BS THEN ShlexRun(s, i + 1, "esc", "a", tok, quoted, out)
        ELSE IF c \in Quotes THEN ShlexRun(s, i + 1, c, escapedstate, tok, quoted, out)
        ELSE ShlexRun(s, i + 1, "a", escapedstate, << c >>, quoted, out)
    ELSE IF state \in Quotes THEN
        IF c = state THEN ShlexRun(s, i + 1, "a", escapedstate, tok, TRUE, out)
        ELSE IF c = BS /\ state = DQ
             THEN ShlexRun(s, i + 1, "esc", state, tok, TRUE, out)
        ELSE ShlexRun(s, i + 1, state, escapedstate, Append(tok, c), TRUE, out)
    ELSE IF state = "esc" THEN
        LET kept == IF escapedstate \in Quotes /\ c # BS /\ c # escapedstate
                    THEN Append(tok, BS) ELSE tok
        IN  ShlexRun(s, i + 1, escapedstate, escapedstate, Append(kept, c), quoted, out)
    ELSE \* state = "a"
        IF c \in Whitespace THEN ShlexRun(s, i + 1, "ws", "ws", <<>>, FALSE, emit)
        ELSE IF c \in Quotes THEN ShlexRun(s, i + 1, c, escapedstate, tok, quoted, out)
        ELSE IF c = BS THEN ShlexRun(s, i + 1, "esc", "a", tok, quoted, out)
        ELSE ShlexRun(s, i + 1, "a", escapedstate, Append(tok, c), quoted, out)

\* [ok |-> FALSE] stands for the ValueError of an unclosed quote or escape
ShlexSplit(s) == ShlexRun(s, 1, "ws", "ws", <<>>, FALSE, <<>>)

\* ------------------------------------------------------------------------
\* security.py: the allowlist and the Command Extractor
\* ------------------------------------------------------------------------

\* a command name is a one-atom string
Name(w) == << w >>

ALLOWED_COMMANDS ==
    { Name(w) : w \in {"ls", "cat", "head", "tail", "wc", "grep",
                       "cp", "mkdir", "chmod", "rm", "mv", "pwd",
                       "npm", "node", "npx", "git",
                       "ps", "lsof", "sleep", "pkill", "init.sh"} }

COMMANDS_NEEDING_EXTRA_VALIDATION ==
    { Name("pkill"), Name("chmod"), Name("init.sh") }

\* the two sets are module globals, mutable set objects that every call
\* of validate_command reads anew: their current values
VARIABLES
    allowed_commands,           \* the set bound to ALLOWED_COMMANDS
    extra_validation_commands   \* the set bound to COMMANDS_NEEDING_EXTRA_VALIDATION

\* the operator tokens that bring back expect_command
OperatorTokens == { <<"|">>, <<"|", "|">>, <<"&", "&">>, <<"&">> }

\* the shell keyword tokens that are skipped
KeywordTokens ==
    { Name(w) : w \in {"if", "then", "else", "elif", "fi", "for", "while",
                       "until", "do", "done", "case", "esac", "in",
                       "!", "{", "}"} }

\* the loop over the tokens of one segment: the names it appends
RECURSIVE WalkTokens(_, _)
WalkTokens(tokens, expect_command) ==
    IF tokens = <<>> THEN <<>>
    ELSE LET token == Head(tokens)
             rest == Tail(tokens)
         IN  IF token \in OperatorTokens THEN WalkTokens(rest, TRUE)
             ELSE IF token \in KeywordTokens THEN WalkTokens(rest, expect_command)
             ELSE IF StartsWith(token, "-") THEN WalkTokens(rest, expect_command)
             ELSE IF Contains(token, "=") /\ ~StartsWith(token, "=")
                  THEN WalkTokens(rest, expect_command)
             ELSE IF expect_command
                  THEN << Basename(token) >> \o WalkTokens(rest, FALSE)
             ELSE WalkTokens(rest, expect_command)

\* ExtractSegments with the failed segment skipped (continue) instead of the
\* whole extraction given up (return [])
RECURSIVE MutExtractSegmentsSkips(_, _)
MutExtractSegmentsSkips(segments, commands) ==
    IF segments = <<>> THEN commands
    ELSE LET segment == Strip(Head(segments))
             split == ShlexSplit(segment)
         IN  IF segment = <<>> \/ ~split.ok
             THEN MutExtractSegmentsSkips(Tail(segments), commands)
             ELSE MutExtractSegmentsSkips(Tail(segments),
                                  commands \o WalkTokens(split.tokens, TRUE))

\* the loop over the semicolon segments; commands holds the names so far
RECURSIVE ExtractSegments(_, _)
ExtractSegments(segments, commands) ==
    IF segments = <<>> THEN commands
    ELSE LET segment == Strip(Head(segments))
             split == ShlexSplit(segment)
         IN  IF segment = <<>> THEN ExtractSegments(Tail(segments), commands)
             ELSE IF ~split.ok THEN <<>>
             ELSE ExtractSegments(Tail(segments),
                                  commands \o WalkTokens(split.tokens, TRUE))

extract_commands(command_string) ==
    ExtractSegments(ReSplit("semi", command_string), <<>>)

\* ------------------------------------------------------------------------
\* security.py: verdicts and the three sub-validators
\* ------------------------------------------------------------------------

\* What a call yields: a verdict (allowed, reason) when exc = "", or the
\* exception named by exc.  A reason is a string: its fixed wording is one
\* atom, the interpolated text follows atom by atom.
Allow == [exc |-> "", allowed |-> TRUE, reason |-> <<>>]
Reject(reason) == [exc |-> "", allowed |-> FALSE, reason |-> reason]
Raise(e) == [exc |-> e, allowed |-> FALSE, reason |-> <<>>]

allowed_process_names ==
    { Name(w) : w \in {"node", "npm", "npx", "vite", "next"} }

\* the not-flag tokens of a token list, in order
NonFlags(tokens) == SelectSeq(tokens, LAMBDA t : ~StartsWith(t, "-"))

\* the reason of a disallowed pkill target; the second atom stands for the
\* printed set of allowed_process_names
PkillTargetReason ==
    << "pkill only allowed for dev processes: ", "{allowed_process_names}" >>

validate_pkill_command(command_string) ==
    LET split == ShlexSplit(command_string)
        tokens == split.tokens
        args == NonFlags(Tail(tokens))
        last == args[Len(args)]
        target == IF Contains(last, SP) THEN FirstWord(last) ELSE last
    IN  IF ~split.ok THEN Reject(<< "Could not parse pkill command" >>)
        ELSE IF tokens = <<>> THEN Reject(<< "Empty pkill command" >>)
        ELSE IF args = <<>> THEN Reject(<< "pkill requires a process name" >>)
        ELSE IF Contains(last, SP) /\ Strip(last) = <<>>
             THEN Raise("IndexError")
        ELSE IF target \in allowed_process_names THEN Allow
        ELSE Reject(PkillTargetReason)

\* re.match(r"^[ugoa]*\+x$", mode); $ also matches before a final newline
ModeMatches(mode) ==
    LET m == IF Len(mode) > 0 /\ mode[Len(mode)] = "\n"
             THEN Slice(mode, 1, Len(mode) - 1) ELSE mode
    IN  /\ Len(m) >= 1
        /\ m[Len(m)] = "+x"
        /\ \A i \in 1..(Len(m) - 1) : m[i] \in {"u", "g", "o", "a"}

validate_chmod_command(command_string) ==
    LET split == ShlexSplit(command_string)
        tokens == split.tokens
        rest == Tail(tokens)
        mode == rest[1]
    IN  IF ~split.ok THEN Reject(<< "Could not parse chmod command" >>)
        ELSE IF tokens = <<>> \/ tokens[1] # Name("chmod")
             THEN Reject(<< "Not a chmod command" >>)
        ELSE IF \E i \in 1..Len(rest) : StartsWith(rest[i], "-")
             THEN Reject(<< "chmod flags are not allowed" >>)
        ELSE IF rest = <<>> THEN Reject(<< "chmod requires a mode" >>)
        ELSE IF ~ModeMatches(mode)
             THEN Reject(<< "chmod only allowed with +x mode, got: " >> \o mode)
        ELSE Allow

\* str.endswith("init.sh"): the slash before the name not asked for
MutEndsWithInitShNoSlash(script) ==
    /\ Len(script) >= 1
    /\ script[Len(script)] = "init.sh"

\* str.endswith("/init.sh")
EndsWithInitSh(script) ==
    /\ Len(script) >= 2
    /\ script[Len(script) - 1] = "/"
    /\ script[Len(script)] = "init.sh"

\* validate_init_script with the reason of the empty segment left out
MutValidateInitScriptNoReason(command_string) ==
    LET split == ShlexSplit(command_string)
        tokens == split.tokens
        script == tokens[1]
    IN  IF ~split.ok THEN Reject(<< "Could not parse init script command" >>)
        ELSE IF tokens = <<>> THEN Reject(<<>>)
        ELSE IF script = << ".", "/", "init.sh" >> \/ EndsWithInitSh(script)
             THEN Allow
        ELSE Reject(<< "Only ./init.sh is allowed, got: " >> \o script)

validate_init_script(command_string) ==
    LET split == ShlexSplit(command_string)
        tokens == split.tokens
        script == tokens[1]
    IN  IF ~split.ok THEN Reject(<< "Could not parse init script command" >>)
        ELSE IF tokens = <<>> THEN Reject(<< "Empty command" >>)
        ELSE IF script = << ".", "/", "init.sh" >> \/ EndsWithInitSh(script)
             THEN Allow
        ELSE Reject(<< "Only ./init.sh is allowed, got: " >> \o script)

\* ------------------------------------------------------------------------
\* security.py: the Policy Engine
\* ------------------------------------------------------------------------

\* the reason of a name that is not allowlisted
NotAllowedReason(cmd) ==
    << "Command '" >> \o cmd \o << "' is not in the allowed commands list" >>

\* the first segment whose own extraction contains cmd, else the command
RECURSIVE FindSegment(_, _, _)
FindSegment(cmd, segments, command) ==
    IF segments = <<>> THEN command
    ELSE LET names == extract_commands(Head(segments))
         IN  IF \E i \in 1..Len(names) : names[i] = cmd
             THEN Head(segments)
             ELSE FindSegment(cmd, Tail(segments), command)

\* the sub-validator of an extra-validation command, on its segment
ExtraValidation(cmd, cmd_segment) ==
    IF cmd = Name("pkill") THEN validate_pkill_command(cmd_segment)
    ELSE IF cmd = Name("chmod") THEN validate_chmod_command(cmd_segment)
    ELSE IF cmd = Name("init.sh") THEN validate_init_script(cmd_segment)
    ELSE Allow

\* CheckCommands with the allowlist test made against the wrong set
RECURSIVE MutCheckCommandsWrongSet(_, _, _)
MutCheckCommandsWrongSet(commands, command, segments) ==
    IF commands = <<>> THEN Allow
    ELSE LET cmd == Head(commands)
         IN  IF cmd \notin extra_validation_commands
             THEN Reject(NotAllowedReason(cmd))
             ELSE LET v == ExtraValidation(cmd,
                               FindSegment(cmd, segments, command))
                  IN  IF v.exc # "" \/ ~v.allowed THEN v
                      ELSE MutCheckCommandsWrongSet(Tail(commands), command, segments)

\* CheckCommands with the final "return True" inside the loop: only the
\* first extracted command is checked
MutCheckCommandsFirstOnly(commands, command, segments) ==
    IF commands = <<>> THEN Allow
    ELSE LET cmd == Head(commands)
         IN  IF cmd \notin allowed_commands THEN Reject(NotAllowedReason(cmd))
             ELSE IF cmd \in extra_validation_commands
                  THEN LET v == ExtraValidation(cmd,
                                    FindSegment(cmd, segments, command))
                       IN  IF v.exc # "" \/ ~v.allowed THEN v ELSE Allow
             ELSE Allow

\* the loop "for cmd in commands" of validate_command
RECURSIVE CheckCommands(_, _, _)
CheckCommands(commands, command, segments) ==
    IF commands = <<>> THEN Allow
    ELSE LET cmd == Head(commands)
         IN  IF cmd \notin allowed_commands THEN Reject(NotAllowedReason(cmd))
             ELSE IF cmd \in extra_validation_commands
                  THEN LET v == ExtraValidation(cmd,
                                    FindSegment(cmd, segments, command))
                       IN  IF v.exc # "" \/ ~v.allowed THEN v
                           ELSE CheckCommands(Tail(commands), command, segments)
             ELSE CheckCommands(Tail(commands), command, segments)

\* validate_command with the emptiness test made on the stripped string
MutValidateCommandStrips(command) ==
    IF Strip(command) = <<>> THEN Reject(<< "Empty command" >>)
    ELSE LET commands == extract_commands(command)
         IN  IF commands = <<>>
             THEN Reject(<< "Could not parse command: " >> \o command)
             ELSE CheckCommands(commands, command,
                                split_command_segments(command))

validate_command(command) ==
    IF command = <<>> THEN Reject(<< "Empty command" >>)
    ELSE LET commands == extract_commands(command)
         IN  IF commands = <<>>
             THEN Reject(<< "Could not parse command: " >> \o command)
             ELSE CheckCommands(commands, command,
                                split_command_segments(command))

\* ------------------------------------------------------------------------
\* The input strings of the model
\* ------------------------------------------------------------------------

\* compound commands of allowlisted and other names
OpsAlphabet == {"ls", "curl", SP, ";", "|", "&", DQ}

\* pkill invocations
PkillAlphabet == {"pkill", "node", "curl", SP, DQ, "-"}

\* script invocations
ScriptAlphabet == {"init.sh", "/", ".", ";", SP, "curl"}

\* chmod invocations
ChmodAlphabet == {"chmod", "+x", "u", "777", "-", SP}

Alphabets == {OpsAlphabet, PkillAlphabet, ScriptAlphabet, ChmodAlphabet}

\* the example commands of the specification's testable properties
SpecExamples ==
    { << "ls", SP, "-", "la", SP, "&", "&", SP, "git", SP, "status" >>,
      << "FOO", "=", "bar", SP, "node", SP, "script.js" >>,
      << "pkill", SP, "node" >>,
      << "pkill", SP, "-", "9", SP, "sshd" >>,
      << "chmod", SP, "+x", SP, "init.sh" >>,
      << "chmod", SP, "777", SP, "init.sh" >>,
      << "chmod", SP, "-", "R", SP, "+x", SP, "dir" >>,
      << ".", "/", "init.sh" >>,
      << "bash", SP, "init.sh" >>,
      << "rm", SP, "-", "rf", SP, "/", SP, ";", SP, "ls" >> }

\* longer commands: two chmod segments, a pkill of a blank target before
\* another segment, operators glued to a word or to a quoted argument
LongCommands ==
    { << "chmod", SP, "+x", SP, "a", ";", SP, "chmod", SP, "777", SP, "b" >>,
      << "pkill", SP, DQ, SP, DQ, SP, ";", "curl" >>,
      << "pkill", SP, "node", SP, "|", SP, "curl", SP, "x" >>,
      << "ls", SP, DQ, "a", DQ, ";", "curl", SP, "x" >>,
      << "ls", SP, "a", "|", "curl", SP, "x" >>,
      << "ls", SP, DQ, "a", SP, "&", "&", SP, "pkill", DQ, SP, "x" >> }

\* chmod commands with a mode that ends in a newline, an = mode, two
\* comma-separated clauses, and chmod reached through a directory
ChmodExamples ==
    { << "chmod", SP, DQ, "+x", "\n", DQ, SP, "f" >>,
      << "chmod", SP, "u", "=", "x", SP, "f" >>,
      << "chmod", SP, "u", "+x", ",", "g", "+x", SP, "f" >>,
      << "chmod", SP, "u", "g", "o", "a", "+x" >>,
      << "/", "bin", "/", "chmod", SP, "+x", SP, "f" >> }

\* commands with && or || inside a quoted argument of pkill and of chmod,
\* and the same commands without the operator
QuotedOperatorExamples ==
    { << "pkill", SP, DQ, "node", SP, "&", "&", SP, "x", DQ >>,
      << "pkill", SP, DQ, "node", SP, "x", DQ >>,
      << "chmod", SP, "+x", SP, DQ, "a", "|", "|", "b", DQ >>,
      << "chmod", SP, "+x", SP, DQ, "a", "b", DQ >> }

\* every string of at most MaxLen atoms over one of the alphabets, and the
\* listed commands
Commands ==
    UNION { [1..n -> A] : A \in Alphabets, n \in 0..MaxLen }
    \cup SpecExamples \cup LongCommands \cup ChmodExamples
    \cup QuotedOperatorExamples

\* ------------------------------------------------------------------------
\* State
\* ------------------------------------------------------------------------

VARIABLES
    command,   \* the string handed to the call
    call,      \* the function called on it, "none" before the call
    verdict,   \* what the validator called yielded
    ret,       \* the string execute_bash returned
    spawned,   \* the command strings handed to subprocess.run, in order
    result,    \* the list split_command_segments or extract_commands returned
    history    \* the validate_command calls made so far: string and verdict

\* ToolManager's file tools and the file system they act on
VARIABLES
    path,      \* the path handed to the tool
    tool,      \* the tool called on it, "none" before the call
    tool_ret,  \* the string the tool returned
    files,     \* the regular files: location |-> content
    dirs,      \* the directories: a set of locations
    listed,    \* the locations whose entries iterdir has read
    context    \* the names of the key files build_context included

\* one RateLimiter object, the clock and the usage file
VARIABLES
    max_rpd, max_tpm,   \* the limits given to the constructor
    current_rpd,        \* requests counted today
    token_window,       \* the (timestamp, token_count) pairs, oldest first
    clock,              \* time.time(), in whole seconds
    usage_file,         \* usage_stats.json: whether it exists, its date and requests
    rl_call,            \* the method called last, "none" before the first
    rl_exc,             \* the exception that call raised, "" if it returned
    rl_slept            \* the seconds that call slept

\* extract_commands followed statement by statement
VARIABLES
    ex_pc,           \* where the call stands: "idle", "segments", "tokens", "done"
    ex_segments,     \* the semicolon segments the outer loop has not taken yet
    ex_tokens,       \* the tokens of the segment of the inner loop
    ex_pos,          \* how many of them the inner loop has gone through
    expect_command,  \* the flag of the inner loop
    ex_commands      \* the list commands

\* GeminiRunner.run_loop with _retry_with_backoff
VARIABLES
    run_pc,                  \* where run_loop stands
    iteration,               \* its counter
    estimated_input_tokens,  \* the estimate of this iteration
    attempt,                 \* the loop variable of _retry_with_backoff
    func_calls,              \* the outcomes of the calls of func in this _retry_with_backoff
    slept,                   \* the delays it slept, in order
    retry_outcome,           \* how it ended
    events                   \* what this iteration did, in order

globalVars == << allowed_commands, extra_validation_commands >>

secVars == << command, call, verdict, ret, spawned, result, history >>

fileVars == << path, tool, tool_ret, files, dirs, listed, context >>

rateVars == << max_rpd, max_tpm, current_rpd, token_window, clock,
               usage_file, rl_call, rl_exc, rl_slept >>

extractVars == << ex_pc, ex_segments, ex_tokens, ex_pos, expect_command,
                 ex_commands >>

runVars == << run_pc, iteration, estimated_input_tokens, attempt, func_calls,
             slept, retry_outcome, events >>

loopVars == << extractVars, runVars >>

vars == << globalVars, secVars, fileVars, rateVars, loopVars >>

\* the module globals as security.py binds them at import
GlobalsInit ==
    /\ allowed_commands = ALLOWED_COMMANDS
    /\ extra_validation_commands = COMMANDS_NEEDING_EXTRA_VALIDATION

\* no file tool is in use
FilesIdle ==
    /\ path = <<>> /\ tool = "none" /\ tool_ret = <<>>
    /\ files = << >> /\ dirs = {} /\ listed = {} /\ context = <<>>

\* no RateLimiter is in use
RateIdle ==
    /\ max_rpd = 0 /\ max_tpm = 0 /\ current_rpd = 0
    /\ token_window = <<>> /\ clock = 0
    /\ usage_file = [exists |-> FALSE, date |-> "", requests |-> 0]
    /\ rl_call = "none" /\ rl_exc = "" /\ rl_slept = 0

\* the validation engine is not in use
SecIdle ==
    /\ command = <<>> /\ call = "none" /\ ret = <<>> /\ spawned = <<>>
    /\ result = <<>> /\ history = <<>>

\* no call of extract_commands is being followed
ExtractIdle ==
    /\ ex_pc = "idle" /\ ex_segments = <<>> /\ ex_tokens = <<>> /\ ex_pos = 0
    /\ expect_command = FALSE /\ ex_commands = <<>>

NoOutcome == [kind |-> "none", call |-> 0]

\* run_loop has not been entered
RunIdle ==
    /\ run_pc = "idle" /\ iteration = 0 /\ estimated_input_tokens = 0
    /\ attempt = 0 /\ func_calls = <<>> /\ slept = <<>>
    /\ retry_outcome = NoOutcome /\ events = <<>>

LoopsIdle == ExtractIdle /\ RunIdle

NoVerdict == [exc |-> "", allowed |-> FALSE, reason |-> << "no verdict yet" >>]

BlockPrefix == "[SECURITY BLOCK] Command blocked: "

\* what execute_bash returns once subprocess.run was called: the output, an
\* exit-code error, the timeout message or the message of another exception
SubprocessReturns ==
    { << "output" >>, << "Error (Exit Code " >>,
      << "Error: Command timed out after 120 seconds" >>,
      << "Error executing command: " >> }

Init ==
    /\ command \in Commands
    /\ call = "none"
    /\ verdict = NoVerdict
    /\ ret = <<>>
    /\ spawned = <<>>
    /\ result = <<>>
    /\ history = <<>>
    /\ GlobalsInit /\ FilesIdle /\ RateIdle /\ LoopsIdle

\* execute_bash with the early return of the security check missing: the
\* command is run whatever the verdict
MutExecuteBashNoReturn ==
    /\ call = "none"
    /\ call' = "execute_bash"
    /\ verdict' = validate_command(command)
    /\ verdict'.exc = ""
    /\ spawned' = Append(spawned, command)
    /\ ret' \in SubprocessReturns
    /\ UNCHANGED << command, result, history, globalVars, fileVars, rateVars, loopVars >>

\* ToolManager.execute_bash(command)
ExecuteBash ==
    /\ call = "none"
    /\ call' = "execute_bash"
    /\ verdict' = validate_command(command)
    /\ \/ /\ verdict'.exc # ""
          /\ ret' = <<>>
          /\ spawned' = spawned
       \/ /\ verdict'.exc = "" /\ ~verdict'.allowed
          /\ ret' = << BlockPrefix >> \o verdict'.reason
          /\ spawned' = spawned
       \/ /\ verdict'.exc = "" /\ verdict'.allowed
          /\ spawned' = Append(spawned, command)
          /\ ret' \in SubprocessReturns
    /\ UNCHANGED << command, result, history, globalVars, fileVars, rateVars, loopVars >>

\* a sub-validator called on the string as its segment
CallSubValidator(name, v) ==
    /\ call = "none"
    /\ call' = name
    /\ verdict' = v
    /\ UNCHANGED << command, ret, spawned, result, history >>
    /\ UNCHANGED << globalVars, fileVars, rateVars, loopVars >>

ValidatePkill ==
    CallSubValidator("validate_pkill_command", validate_pkill_command(command))

ValidateChmod ==
    CallSubValidator("validate_chmod_command", validate_chmod_command(command))

ValidateInitScript ==
    CallSubValidator("validate_init_script", validate_init_script(command))

\* a function of security.py that returns a list, called on the string
CallListFunction(name, r) ==
    /\ call = "none"
    /\ call' = name
    /\ result' = r
    /\ UNCHANGED << command, verdict, ret, spawned, history >>
    /\ UNCHANGED << globalVars, fileVars, rateVars, loopVars >>

SplitCommandSegments ==
    CallListFunction("split_command_segments", split_command_segments(command))

ExtractCommands ==
    CallListFunction("extract_commands", extract_commands(command))

Next ==
    \/ ExecuteBash
    \/ ValidatePkill
    \/ ValidateChmod
    \/ ValidateInitScript
    \/ SplitCommandSegments
    \/ ExtractCommands

Spec == Init /\ [][Next]_vars

\* ------------------------------------------------------------------------
\* validate_command called again and again in one process
\* ------------------------------------------------------------------------

\* the number of validate_command calls of a run
MaxCalls == 3

\* the strings validated: allowed and rejected ones, one for each
\* sub-validator, one that raises, the empty string
RepeatCommands ==
    { << "ls" >>, << "curl" >>, <<>>,
      << "ls", SP, "|", "curl" >>,
      << "pkill", SP, "node" >>,
      << "pkill", SP, DQ, SP, DQ >>,
      << "chmod", SP, "777", SP, "init.sh" >>,
      << ".", "/", "init.sh" >> }

InitRepeat ==
    /\ command \in RepeatCommands
    /\ call = "none"
    /\ verdict = NoVerdict
    /\ ret = <<>> /\ spawned = <<>> /\ result = <<>>
    /\ history = <<>>
    /\ GlobalsInit /\ FilesIdle /\ RateIdle /\ LoopsIdle

\* validate_command that remembers the names it has seen as allowed
MutValidateCommandLearns ==
    /\ call = "none"
    /\ Len(history) < MaxCalls
    /\ call' = "validate_command"
    /\ verdict' = validate_command(command)
    /\ history' = Append(history, [command |-> command, verdict |-> verdict'])
    /\ allowed_commands' =
           allowed_commands \cup
           { extract_commands(command)[i] :
                 i \in 1..Len(extract_commands(command)) }
    /\ UNCHANGED << command, ret, spawned, result, extra_validation_commands >>
    /\ UNCHANGED << fileVars, rateVars, loopVars >>

\* validate_command(command): it reads the string and the two global sets
\* and assigns to none of them
ValidateCommand ==
    /\ call = "none"
    /\ Len(history) < MaxCalls
    /\ call' = "validate_command"
    /\ verdict' = validate_command(command)
    /\ history' = Append(history, [command |-> command, verdict |-> verdict'])
    /\ UNCHANGED << command, ret, spawned, result >>
    /\ UNCHANGED << globalVars, fileVars, rateVars, loopVars >>

\* the caller comes with its next string
NextCommand ==
    /\ call = "validate_command"
    /\ Len(history) < MaxCalls
    /\ command' \in RepeatCommands
    /\ call' = "none"
    /\ UNCHANGED << verdict, ret, spawned, result, history >>
    /\ UNCHANGED << globalVars, fileVars, rateVars, loopVars >>

NextRepeat ==
    \/ ValidateCommand
    \/ NextCommand

SpecRepeat == InitRepeat /\ [][NextRepeat]_vars

\* ------------------------------------------------------------------------
\* pathlib.Path on POSIX, as gemini_tools.py uses it.  A path is its root
\* ("", "/" or "//") and its parts; a location of the file system is the
\* list of names that leads to it from the root directory.  The file
\* system holds no symbolic link.
\* ------------------------------------------------------------------------

Dot == << "." >>
DotDot == << ".", "." >>

Front(s) == IF s = <<>> THEN <<>> ELSE SubSeq(s, 1, Len(s) - 1)

\* str.startswith(prefix)
StartsWithStr(s, prefix) ==
    Len(s) >= Len(prefix) /\ SubSeq(s, 1, Len(prefix)) = prefix

\* the pieces of s between its slashes, from position cur on
RECURSIVE SplitSlash(_, _, _)
SplitSlash(s, cur, p) ==
    IF p > Len(s) THEN << Slice(s, cur, Len(s)) >>
    ELSE IF s[p] = "/"
         THEN << Slice(s, cur, p - 1) >> \o SplitSlash(s, p + 1, p + 1)
         ELSE SplitSlash(s, cur, p + 1)

\* Path(s): empty pieces and "." are dropped, ".." is kept, exactly two
\* leading slashes are kept as the root "//"
ParsePath(s) ==
    [ root |-> IF s = <<>> \/ s[1] # "/" THEN ""
               ELSE IF Len(s) >= 2 /\ s[2] = "/" /\ (Len(s) = 2 \/ s[3] # "/")
                    THEN "//" ELSE "/",
      parts |-> SelectSeq(SplitSlash(s, 1, 1),
                          LAMBDA c : c # <<>> /\ c # Dot) ]

\* base / other: a rooted right operand replaces the left one
JoinPath(base, other) ==
    IF other.root # "" THEN other
    ELSE [root |-> base.root, parts |-> base.parts \o other.parts]

RECURSIVE ResolveParts(_, _)
ResolveParts(done, parts) ==
    IF parts = <<>> THEN done
    ELSE IF Head(parts) = DotDot
         THEN ResolveParts(Front(done), Tail(parts))
         ELSE ResolveParts(Append(done, Head(parts)), Tail(parts))

\* Path.resolve() of a rooted path: ".." removes the part before it, the
\* root becomes "/"
Resolve(P) == [root |-> "/", parts |-> ResolveParts(<<>>, P.parts)]

RECURSIVE JoinSlash(_)
JoinSlash(parts) ==
    IF parts = <<>> THEN <<>>
    ELSE IF Len(parts) = 1 THEN parts[1]
    ELSE Head(parts) \o << "/" >> \o JoinSlash(Tail(parts))

\* str(path)
PathStr(P) ==
    IF P.root = "//" THEN << "/", "/" >> \o JoinSlash(P.parts)
    ELSE IF P.root = "/" THEN << "/" >> \o JoinSlash(P.parts)
    ELSE IF P.parts = <<>> THEN Dot
    ELSE JoinSlash(P.parts)

\* self.project_dir of the ToolManager
project_dir == Resolve(ParsePath(<< "/", "proj" >>))

\* ToolManager._is_safe_path(path)
is_safe_path(p) ==
    StartsWithStr(PathStr(Resolve(JoinPath(project_dir, ParsePath(p)))),
                  PathStr(project_dir))

\* ------------------------------------------------------------------------
\* The file system calls behind Path.exists, is_dir, mkdir, write_text and
\* iterdir.  fd is the set of directories, ff the function of the files.
\* ------------------------------------------------------------------------

Kind(loc, fd, ff) ==
    IF loc \in fd THEN "dir"
    ELSE IF loc \in DOMAIN ff THEN "file" ELSE "missing"

\* the location the parts lead to from cur, every step but the last made
\* through an existing directory
RECURSIVE Walk(_, _, _, _)
Walk(cur, parts, fd, ff) ==
    IF parts = <<>> THEN [err |-> "", loc |-> cur]
    ELSE IF Kind(cur, fd, ff) = "file" THEN [err |-> "ENOTDIR", loc |-> cur]
    ELSE IF Kind(cur, fd, ff) = "missing" THEN [err |-> "ENOENT", loc |-> cur]
    ELSE Walk(IF Head(parts) = DotDot THEN Front(cur)
              ELSE Append(cur, Head(parts)),
              Tail(parts), fd, ff)

\* Path.exists()
Exists(parts, fd, ff) ==
    LET w == Walk(<<>>, parts, fd, ff)
    IN  w.err = "" /\ Kind(w.loc, fd, ff) # "missing"

\* Path.is_dir()
IsDir(parts, fd, ff) ==
    LET w == Walk(<<>>, parts, fd, ff)
    IN  w.err = "" /\ Kind(w.loc, fd, ff) = "dir"

\* Path.is_file()
IsFile(parts, fd, ff) ==
    LET w == Walk(<<>>, parts, fd, ff)
    IN  w.err = "" /\ Kind(w.loc, fd, ff) = "file"

\* os.mkdir(path): the error, or the directories with the new one
OsMkdir(parts, fd, ff) ==
    LET w == Walk(<<>>, Front(parts), fd, ff)
        last == parts[Len(parts)]
        k == Kind(w.loc, fd, ff)
    IN  IF parts = <<>> THEN [err |-> "EEXIST", dirs |-> fd]
        ELSE IF w.err # "" THEN [err |-> w.err, dirs |-> fd]
        ELSE IF k = "file" THEN [err |-> "ENOTDIR", dirs |-> fd]
        ELSE IF k = "missing" THEN [err |-> "ENOENT", dirs |-> fd]
        ELSE IF last = DotDot THEN [err |-> "EEXIST", dirs |-> fd]
        ELSE IF Kind(Append(w.loc, last), fd, ff) # "missing"
             THEN [err |-> "EEXIST", dirs |-> fd]
        ELSE [err |-> "", dirs |-> fd \cup { Append(w.loc, last) }]

\* the exception of an errno
ErrorName(err) ==
    IF err = "ENOENT" THEN "FileNotFoundError"
    ELSE IF err = "ENOTDIR" THEN "NotADirectoryError"
    ELSE IF err = "EEXIST" THEN "FileExistsError"
    ELSE "IsADirectoryError"

\* Path.mkdir(parents=True, exist_ok=True): the exception raised, "" if
\* none, and the directories there are afterwards
RECURSIVE Mkdir(_, _, _)
Mkdir(parts, fd, ff) ==
    LET r == OsMkdir(parts, fd, ff)
    IN  IF r.err = "" THEN [exc |-> "", dirs |-> r.dirs]
        ELSE IF r.err = "ENOENT" /\ parts # <<>> THEN
            LET up == Mkdir(Front(parts), fd, ff)
                r2 == OsMkdir(parts, up.dirs, ff)
            IN  IF up.exc # "" THEN up
                ELSE IF r2.err = "" THEN [exc |-> "", dirs |-> r2.dirs]
                ELSE IF r2.err # "ENOENT" /\ IsDir(parts, up.dirs, ff)
                     THEN [exc |-> "", dirs |-> up.dirs]
                ELSE [exc |-> ErrorName(r2.err), dirs |-> up.dirs]
        ELSE IF r.err # "ENOENT" /\ IsDir(parts, fd, ff)
             THEN [exc |-> "", dirs |-> fd]
        ELSE [exc |-> ErrorName(r.err), dirs |-> fd]

\* Path.write_text(content): the exception raised, "" if none, and the
\* files there are afterwards
WriteText(parts, content, fd, ff) ==
    LET w == Walk(<<>>, Front(parts), fd, ff)
        last == parts[Len(parts)]
        k == Kind(w.loc, fd, ff)
        t == Append(w.loc, last)
    IN  IF parts = <<>> THEN [exc |-> "IsADirectoryError", files |-> ff]
        ELSE IF w.err # "" THEN [exc |-> ErrorName(w.err), files |-> ff]
        ELSE IF k # "dir"
             THEN [exc |-> ErrorName(IF k = "file" THEN "ENOTDIR" ELSE "ENOENT"),
                   files |-> ff]
        ELSE IF last = DotDot \/ t \in fd
             THEN [exc |-> "IsADirectoryError", files |-> ff]
        ELSE [exc |-> "", files |-> (t :> content) @@ ff]

\* ------------------------------------------------------------------------
\* gemini_tools.py: the file tools of the ToolManager
\* ------------------------------------------------------------------------

AccessDenied == << "Error", ": Access denied (path outside project directory)" >>

\* the message of the AttributeError that the lookup of a method the class
\* does not define raises
NoAttribute(name) ==
    << "'ToolManager' object has no attribute '", name, "'" >>

\* ToolManager.read_file(path): the class defines no _validate_path, so its
\* first statement raises AttributeError, which "except Exception" turns
\* into the returned string; nothing after that statement is run
read_file(p) ==
    << "Error", " reading file: " >> \o NoAttribute("_validate_path")

\* ToolManager.replace_in_file(path, old_block, new_block): likewise
replace_in_file(p) ==
    << "Error", " replacing content: " >> \o NoAttribute("_validate_path")

\* ToolManager.write_file(path, content): the string returned and the file
\* system afterwards
write_file(p, content, fd, ff) ==
    LET target_path == JoinPath(project_dir, ParsePath(p))
        made == Mkdir(Front(target_path.parts), fd, ff)
        written == WriteText(target_path.parts, content, made.dirs, ff)
    IN  IF ~is_safe_path(p)
        THEN [ret |-> AccessDenied, dirs |-> fd, files |-> ff]
        ELSE IF made.exc # ""
        THEN [ret |-> << "Error", " writing file: ", made.exc >>,
              dirs |-> made.dirs, files |-> ff]
        ELSE IF written.exc # ""
        THEN [ret |-> << "Error", " writing file: ", written.exc >>,
              dirs |-> made.dirs, files |-> ff]
        ELSE [ret |-> << "Successfully wrote to " >> \o p,
              dirs |-> made.dirs, files |-> written.files]

\* the order of the characters the names of the model start with
AtomOrder ==
    << " ", ".", "2", "DIR ", "FILE", "README.md", "a", "init.sh", "proj" >>

AtomRank(a) == CHOOSE i \in 1..Len(AtomOrder) : AtomOrder[i] = a

\* string comparison a < b
RECURSIVE LexLess(_, _)
LexLess(a, b) ==
    IF b = <<>> THEN FALSE
    ELSE IF a = <<>> THEN TRUE
    ELSE IF Head(a) = Head(b) THEN LexLess(Tail(a), Tail(b))
    ELSE AtomRank(Head(a)) < AtomRank(Head(b))

RECURSIVE SetToSeq(_)
SetToSeq(S) ==
    IF S = {} THEN <<>>
    ELSE LET x == CHOOSE x \in S : TRUE
         IN  << x >> \o SetToSeq(S \ {x})

\* "\n".join(lines)
RECURSIVE JoinLines(_)
JoinLines(lines) ==
    IF lines = <<>> THEN <<>>
    ELSE IF Len(lines) = 1 THEN lines[1]
    ELSE Head(lines) \o << "\n" >> \o JoinLines(Tail(lines))

\* the line of list_directory for each entry of the directory at loc
EntryLines(loc, fd, ff) ==
    { (IF l \in fd THEN << "DIR " >> ELSE << "FILE" >>)
          \o << " " >> \o l[Len(l)] :
      l \in { e \in fd \cup DOMAIN ff : e # <<>> /\ Front(e) = loc } }

\* ToolManager.list_directory(path): the string returned and the
\* locations whose entries were read
list_directory(p, fd, ff) ==
    LET target_path == JoinPath(project_dir, ParsePath(p))
        w == Walk(<<>>, target_path.parts, fd, ff)
    IN  IF ~is_safe_path(p) THEN [ret |-> AccessDenied, read |-> {}]
        ELSE IF ~Exists(target_path.parts, fd, ff)
        THEN [ret |-> << "Error", ": Directory not found: " >> \o p,
              read |-> {}]
        ELSE IF ~IsDir(target_path.parts, fd, ff)
        THEN [ret |-> << "Error", ": Not a directory: " >> \o p, read |-> {}]
        ELSE [ret |-> JoinLines(SortSeq(SetToSeq(EntryLines(w.loc, fd, ff)),
                                        LexLess)),
              read |-> { w.loc }]

\* ------------------------------------------------------------------------
\* gemini_runner.py: GeminiRunner.build_context
\* ------------------------------------------------------------------------

key_files ==
    << << "planning_journal.md" >>, << "TECH_STACK.md" >>,
       << "feature_list.json" >>, << "app_spec.txt" >>,
       << "package.json" >>, << "requirements.txt" >>,
       << "init.sh" >>, << "README.md" >> >>

\* the number of characters of a key file that go into the context
TruncateLimit == 10000

\* content[:10000] + ("\n... (truncated)" if len(content) > 10000 else "")
Truncate(content) ==
    IF Len(content) > TruncateLimit
    THEN SubSeq(content, 1, TruncateLimit) \o << "\n... (truncated)" >>
    ELSE content

\* the loop over key_files: name and text of every file that exists and
\* that read_file did not answer with a string starting with "Error"
RECURSIVE KeyFileSections(_, _, _)
KeyFileSections(names, fd, ff) ==
    IF names = <<>> THEN <<>>
    ELSE LET filename == Head(names)
             content == read_file(filename)
         IN  (IF /\ Exists(JoinPath(project_dir, ParsePath(filename)).parts,
                           fd, ff)
                 /\ ~StartsWithStr(content, << "Error" >>)
              THEN << [name |-> filename,
                       text |-> IF filename = << "feature_list.json" >>
                                THEN content ELSE Truncate(content)] >>
              ELSE <<>>)
             \o KeyFileSections(Tail(names), fd, ff)

\* the line of three backquotes that opens and closes a block of the context
Fence == "(three backquotes)"

\* the lines of the context that build_context joins
ContextLines(listing, sections) ==
    << << "# Project Context\n" >>, << "## Directory Structure" >>,
       << Fence >>, listing, << Fence, "\n" >>, << "## Key Files" >> >>
    \o Flatten([i \in 1..Len(sections) |->
                   << << "### " >> \o sections[i].name, << Fence >>,
                      sections[i].text, << Fence, "\n" >> >>])

\* ------------------------------------------------------------------------
\* State machine of the file tools
\* ------------------------------------------------------------------------

\* the longest path of the alphabet
MaxPathLen == 5

PathAlphabet == {"/", ".", "proj", "2", "a"}

\* a file of the sibling directory /proj2 by a relative path, two key
\* files, and a path that leaves the project through a file name
PathExamples ==
    { << ".", ".", "/", "proj", "2", "/", "a" >>,
      << "README.md" >>, << "init.sh" >>,
      << "a", "/", ".", ".", "/", ".", ".", "/", "proj", "2" >> }

Paths ==
    UNION { [1..n -> PathAlphabet] : n \in 0..MaxPathLen } \cup PathExamples

OldContent == << "o", "l", "d" >>
NewContent == << "n", "e", "w" >>

ProjLoc == << Name("proj") >>
SiblingLoc == << << "proj", "2" >> >>

\* the directories at the start: the root, the project directory and a
\* sibling directory whose name starts with the project directory's name
InitialDirs == { <<>>, ProjLoc, SiblingLoc }

\* the files at the start: one in the sibling directory, the given key
\* files and, if asked for, a file "a" in the project directory
InitialFiles(keys, withA) ==
    [ l \in { Append(SiblingLoc, Name("a")) }
            \cup { Append(ProjLoc, k) : k \in keys }
            \cup (IF withA THEN { Append(ProjLoc, Name("a")) } ELSE {})
        |-> OldContent ]

InitFiles ==
    /\ path \in Paths
    /\ tool = "none"
    /\ tool_ret = <<>>
    /\ dirs = InitialDirs
    /\ \E keys \in SUBSET { Name("README.md"), Name("init.sh") },
          withA \in BOOLEAN : files = InitialFiles(keys, withA)
    /\ listed = {}
    /\ context = <<>>
    /\ SecIdle /\ verdict = NoVerdict
    /\ GlobalsInit /\ RateIdle /\ LoopsIdle

ReadFile ==
    /\ tool = "none"
    /\ tool' = "read_file"
    /\ tool_ret' = read_file(path)
    /\ UNCHANGED << path, files, dirs, listed, context >>
    /\ UNCHANGED << globalVars, secVars, rateVars, loopVars >>

ReplaceInFile ==
    /\ tool = "none"
    /\ tool' = "replace_in_file"
    /\ tool_ret' = replace_in_file(path)
    /\ UNCHANGED << path, files, dirs, listed, context >>
    /\ UNCHANGED << globalVars, secVars, rateVars, loopVars >>

WriteFile ==
    /\ tool = "none"
    /\ tool' = "write_file"
    /\ LET r == write_file(path, NewContent, dirs, files)
       IN  tool_ret' = r.ret /\ dirs' = r.dirs /\ files' = r.files
    /\ UNCHANGED << path, listed, context >>
    /\ UNCHANGED << globalVars, secVars, rateVars, loopVars >>

ListDirectory ==
    /\ tool = "none"
    /\ tool' = "list_directory"
    /\ LET r == list_directory(path, dirs, files)
       IN  tool_ret' = r.ret /\ listed' = listed \cup r.read
    /\ UNCHANGED << path, files, dirs, context >>
    /\ UNCHANGED << globalVars, secVars, rateVars, loopVars >>

\* GeminiRunner.build_context()
BuildContext ==
    /\ tool = "none"
    /\ tool' = "build_context"
    /\ LET listing == list_directory(Dot, dirs, files)
           sections == KeyFileSections(key_files, dirs, files)
       IN  /\ tool_ret' = JoinLines(ContextLines(listing.ret, sections))
           /\ listed' = listed \cup listing.read
           /\ context' = [i \in 1..Len(sections) |-> sections[i].name]
    /\ UNCHANGED << path, files, dirs >>
    /\ UNCHANGED << globalVars, secVars, rateVars, loopVars >>

NextFiles ==
    \/ ReadFile
    \/ ReplaceInFile
    \/ WriteFile
    \/ ListDirectory
    \/ BuildContext

SpecFiles == InitFiles /\ [][NextFiles]_vars

\* ------------------------------------------------------------------------
\* security.py: extract_commands, one statement at a time
\* ------------------------------------------------------------------------

\* the largest number of words of a command that is followed
MaxWords == 4

\* the words: names with and without a directory, a keyword, a flag, an
\* assignment, words that start with =, operators and the semicolon
Words ==
    { << "ls" >>, << "/", "bin", "/", "cat" >>, << "if" >>, << "-", "la" >>,
      << "FOO", "=", "bar" >>, << "=", "x" >>, << "=", "x", "=", "y" >>,
      << "&", "&" >>, << "|" >>, << ";" >> }

\* the words with one blank between them
RECURSIVE JoinWords(_)
JoinWords(ws) ==
    IF ws = <<>> THEN <<>>
    ELSE IF Len(ws) = 1 THEN ws[1]
    ELSE ws[1] \o << SP >> \o JoinWords(Tail(ws))

\* the commands followed: every command of at most MaxWords words, and the
\* listed commands
ExtractInputs ==
    { JoinWords(ws) : ws \in UNION { [1..n -> Words] : n \in 0..MaxWords } }
    \cup SpecExamples \cup LongCommands

InitExtract ==
    /\ command \in ExtractInputs
    /\ call = "none" /\ verdict = NoVerdict
    /\ ret = <<>> /\ spawned = <<>> /\ result = <<>> /\ history = <<>>
    /\ ExtractIdle
    /\ RunIdle /\ GlobalsInit /\ FilesIdle /\ RateIdle

\* commands = []; segments = re.split(...)
ExStart ==
    /\ ex_pc = "idle"
    /\ ex_pc' = "segments"
    /\ call' = "extract_commands"
    /\ ex_commands' = <<>>
    /\ ex_segments' = ReSplit("semi", command)
    /\ UNCHANGED << ex_tokens, ex_pos, expect_command >>
    /\ UNCHANGED << command, verdict, ret, spawned, result, history >>
    /\ UNCHANGED << globalVars, fileVars, rateVars, runVars >>

\* one turn of the loop over the segments up to the loop over its tokens,
\* or the end of the loop and the return of commands
ExSegment ==
    /\ ex_pc = "segments"
    /\ IF ex_segments = <<>>
       THEN /\ ex_pc' = "done" /\ result' = ex_commands
            /\ UNCHANGED << ex_segments, ex_tokens, ex_pos, expect_command >>
       ELSE LET segment == Strip(Head(ex_segments))
                split == ShlexSplit(segment)
            IN  /\ ex_segments' = Tail(ex_segments)
                /\ IF segment = <<>>
                   THEN UNCHANGED << ex_pc, result, ex_tokens, ex_pos,
                                     expect_command >>
                   ELSE IF ~split.ok
                   THEN /\ ex_pc' = "done" /\ result' = <<>>
                        /\ UNCHANGED << ex_tokens, ex_pos, expect_command >>
                   ELSE IF split.tokens = <<>>
                   THEN UNCHANGED << ex_pc, result, ex_tokens, ex_pos,
                                     expect_command >>
                   ELSE /\ ex_pc' = "tokens"
                        /\ ex_tokens' = split.tokens
                        /\ ex_pos' = 0
                        /\ expect_command' = TRUE
                        /\ UNCHANGED result
    /\ UNCHANGED << command, call, verdict, ret, spawned, history, ex_commands >>
    /\ UNCHANGED << globalVars, fileVars, rateVars, runVars >>

\* the token the loop over the tokens takes next
NextToken == ex_tokens[ex_pos + 1]

\* ExToken with the flag left as it is when a name is appended
MutExTokenKeepsFlag ==
    /\ ex_pc = "tokens" /\ ex_pos < Len(ex_tokens)
    /\ ex_pos' = ex_pos + 1
    /\ IF NextToken \in OperatorTokens
       THEN expect_command' = TRUE /\ UNCHANGED ex_commands
       ELSE IF \/ NextToken \in KeywordTokens
               \/ StartsWith(NextToken, "-")
               \/ Contains(NextToken, "=") /\ ~StartsWith(NextToken, "=")
       THEN UNCHANGED << expect_command, ex_commands >>
       ELSE IF expect_command
       THEN /\ ex_commands' = Append(ex_commands, Basename(NextToken))
            /\ UNCHANGED expect_command
       ELSE UNCHANGED << expect_command, ex_commands >>
    /\ UNCHANGED << ex_pc, ex_segments, ex_tokens >>
    /\ UNCHANGED << globalVars, secVars, fileVars, rateVars, runVars >>

\* ExToken with the assignment tokens taken like any other token
MutExTokenTakesAssignments ==
    /\ ex_pc = "tokens" /\ ex_pos < Len(ex_tokens)
    /\ ex_pos' = ex_pos + 1
    /\ IF NextToken \in OperatorTokens
       THEN expect_command' = TRUE /\ UNCHANGED ex_commands
       ELSE IF \/ NextToken \in KeywordTokens
               \/ StartsWith(NextToken, "-")
       THEN UNCHANGED << expect_command, ex_commands >>
       ELSE IF expect_command
       THEN /\ ex_commands' = Append(ex_commands, Basename(NextToken))
            /\ expect_command' = FALSE
       ELSE UNCHANGED << expect_command, ex_commands >>
    /\ UNCHANGED << ex_pc, ex_segments, ex_tokens >>
    /\ UNCHANGED << globalVars, secVars, fileVars, rateVars, runVars >>

\* one turn of the loop over the tokens
ExToken ==
    /\ ex_pc = "tokens" /\ ex_pos < Len(ex_tokens)
    /\ ex_pos' = ex_pos + 1
    /\ IF NextToken \in OperatorTokens
       THEN expect_command' = TRUE /\ UNCHANGED ex_commands
       ELSE IF \/ NextToken \in KeywordTokens
               \/ StartsWith(NextToken, "-")
               \/ Contains(NextToken, "=") /\ ~StartsWith(NextToken, "=")
       THEN UNCHANGED << expect_command, ex_commands >>
       ELSE IF expect_command
       THEN /\ ex_commands' = Append(ex_commands, Basename(NextToken))
            /\ expect_command' = FALSE
       ELSE UNCHANGED << expect_command, ex_commands >>
    /\ UNCHANGED << ex_pc, ex_segments, ex_tokens >>
    /\ UNCHANGED << globalVars, secVars, fileVars, rateVars, runVars >>

\* the loop over the tokens is through: back to the loop over the segments
ExTokensDone ==
    /\ ex_pc = "tokens" /\ ex_pos = Len(ex_tokens)
    /\ ex_pc' = "segments"
    /\ UNCHANGED << ex_segments, ex_tokens, ex_pos, expect_command, ex_commands >>
    /\ UNCHANGED << globalVars, secVars, fileVars, rateVars, runVars >>

NextExtract == ExStart \/ ExSegment \/ ExToken \/ ExTokensDone

SpecExtract == InitExtract /\ [][NextExtract]_vars

\* the statements followed one by one yield the list of extract_commands
ExtractAgrees == ex_pc = "done" => result = extract_commands(command)

\* ------------------------------------------------------------------------
\* rate_limiter.py: one RateLimiter object
\* ------------------------------------------------------------------------

\* the largest max_rpd, max_tpm and token count of a call, and the time
\* up to which the clock is followed between calls
MaxRpd == 2
MaxTpm == 2
MaxTokens == 3
MaxClock == 150

\* the seconds that may pass between two calls
TickSteps == {25, 40}

\* the length of the rolling window, in seconds
WindowSeconds == 60

DailyLimit == "Exception: Daily Request Limit Reached"

NoUsageFile == [exists |-> FALSE, date |-> "", requests |-> 0]

\* _load_usage: the count of the file if it is of today, else 0
load_usage(file) ==
    IF file.exists /\ file.date = "today" THEN file.requests ELSE 0

\* sum(c for t, c in self.token_window)
RECURSIVE SumTokens(_)
SumTokens(w) == IF w = <<>> THEN 0 ELSE Head(w).c + SumTokens(Tail(w))

\* [(t, c) for t, c in self.token_window if now - t < 60]
Clean(w, now) == SelectSeq(w, LAMBDA e : now - e.t < WindowSeconds)

\* RateLimiter(project_dir, max_rpd, max_tpm)
InitRate ==
    /\ max_rpd \in 0..MaxRpd
    /\ max_tpm \in 1..MaxTpm
    /\ usage_file \in
           { NoUsageFile }
           \cup { [exists |-> TRUE, date |-> d, requests |-> n] :
                      d \in {"today", "yesterday"}, n \in 0..(MaxRpd + 1) }
    /\ current_rpd = load_usage(usage_file)
    /\ token_window = <<>>
    /\ clock = 0
    /\ rl_call = "none" /\ rl_exc = "" /\ rl_slept = 0
    /\ SecIdle /\ verdict = NoVerdict
    /\ GlobalsInit /\ FilesIdle /\ LoopsIdle

\* RateLimiter.check_and_wait(estimated_tokens) on the object, the clock
\* and the file; time.sleep(wait_time) moves the clock on by wait_time
check_and_wait(estimated_tokens) ==
    /\ rl_call' = "check_and_wait"
    /\ IF current_rpd >= max_rpd
       THEN /\ rl_exc' = DailyLimit /\ rl_slept' = 0
            /\ UNCHANGED << token_window, clock >>
       ELSE LET cleaned == Clean(token_window, clock)
                current_tpm == SumTokens(cleaned)
                wait_time == WindowSeconds - (clock - cleaned[1].t) + 1
            IN  IF current_tpm + estimated_tokens > max_tpm
                THEN IF cleaned = <<>>
                     THEN /\ rl_exc' = "IndexError" /\ rl_slept' = 0
                          /\ token_window' = cleaned
                          /\ clock' = clock
                     ELSE /\ rl_exc' = "" /\ rl_slept' = wait_time
                          /\ clock' = clock + wait_time
                          /\ token_window' = Clean(cleaned, clock + wait_time)
                ELSE /\ rl_exc' = "" /\ rl_slept' = 0
                     /\ token_window' = cleaned
                     /\ clock' = clock
    /\ UNCHANGED << max_rpd, max_tpm, current_rpd, usage_file >>

\* RateLimiter.record_request(token_count) on the object and the file
record_request(token_count) ==
    /\ rl_call' = "record_request"
    /\ rl_exc' = "" /\ rl_slept' = 0
    /\ current_rpd' = current_rpd + 1
    /\ usage_file' = [exists |-> TRUE, date |-> "today",
                      requests |-> current_rpd + 1]
    /\ token_window' = Append(token_window, [t |-> clock, c |-> token_count])
    /\ UNCHANGED << max_rpd, max_tpm, clock >>

\* check_and_wait with the daily test made with > in place of >=
MutCheckAndWaitOffByOne(estimated_tokens) ==
    /\ rl_call' = "check_and_wait"
    /\ IF current_rpd > max_rpd
       THEN /\ rl_exc' = DailyLimit /\ rl_slept' = 0
            /\ UNCHANGED << token_window, clock >>
       ELSE LET cleaned == Clean(token_window, clock)
                current_tpm == SumTokens(cleaned)
                wait_time == WindowSeconds - (clock - cleaned[1].t) + 1
            IN  IF current_tpm + estimated_tokens > max_tpm
                THEN IF cleaned = <<>>
                     THEN /\ rl_exc' = "IndexError" /\ rl_slept' = 0
                          /\ token_window' = cleaned
                          /\ clock' = clock
                     ELSE /\ rl_exc' = "" /\ rl_slept' = wait_time
                          /\ clock' = clock + wait_time
                          /\ token_window' = Clean(cleaned, clock + wait_time)
                ELSE /\ rl_exc' = "" /\ rl_slept' = 0
                     /\ token_window' = cleaned
                     /\ clock' = clock
    /\ UNCHANGED << max_rpd, max_tpm, current_rpd, usage_file >>
    /\ UNCHANGED << globalVars, secVars, fileVars, loopVars >>

\* a call of check_and_wait on the object
CheckAndWait(estimated_tokens) ==
    /\ check_and_wait(estimated_tokens)
    /\ UNCHANGED << globalVars, secVars, fileVars, loopVars >>

\* a call of record_request, made as run_loop makes it: after a
\* check_and_wait that returned
RecordRequest(token_count) ==
    /\ rl_call = "check_and_wait" /\ rl_exc = ""
    /\ record_request(token_count)
    /\ UNCHANGED << globalVars, secVars, fileVars, loopVars >>

\* time passes between two calls
Tick(d) ==
    /\ clock + d <= MaxClock
    /\ clock' = clock + d
    /\ UNCHANGED << max_rpd, max_tpm, current_rpd, token_window,
                    usage_file, rl_call, rl_exc, rl_slept >>
    /\ UNCHANGED << globalVars, secVars, fileVars, loopVars >>

NextRate ==
    \/ \E estimated_tokens \in 1..MaxTokens : CheckAndWait(estimated_tokens)
    \/ \E token_count \in 1..MaxTokens : RecordRequest(token_count)
    \/ \E d \in TickSteps : Tick(d)

SpecRate == InitRate /\ [][NextRate]_vars

\* ------------------------------------------------------------------------
\* gemini_runner.py: run_loop and _retry_with_backoff
\* ------------------------------------------------------------------------

\* the largest number of iterations of run_loop that are followed
MaxIterations == 3

MAX_CONTEXT_TOKENS == 500000

\* the tokens run_loop adds to the count of the history for its estimate
PromptAllowance == 2000

max_retries == 5
base_delay == 2

\* the seconds run_loop sleeps after an exception of its try block
HardRetrySeconds == 60

\* what _get_token_count can return: 0 when count_tokens fails, a count
\* below and a count above MAX_CONTEXT_TOKENS
TokenCounts == {0, 1000, MAX_CONTEXT_TOKENS + 1}

\* len(response.text) // 4
OutputTokens == {0, 50}

\* the --tpm values of the runs followed
TpmLimits == {2500, 1000000}

RECURSIVE Power(_, _)
Power(b, n) == IF n = 0 THEN 1 ELSE b * Power(b, n - 1)

\* GeminiRunner(project_dir, model_name, mode, max_rpd, max_tpm), which
\* makes its RateLimiter
InitRun ==
    /\ max_rpd \in 0..MaxRpd
    /\ max_tpm \in TpmLimits
    /\ usage_file \in
           { NoUsageFile }
           \cup { [exists |-> TRUE, date |-> d, requests |-> n] :
                      d \in {"today", "yesterday"}, n \in 0..(MaxRpd + 1) }
    /\ current_rpd = load_usage(usage_file)
    /\ token_window = <<>>
    /\ clock = 0
    /\ rl_call = "none" /\ rl_exc = "" /\ rl_slept = 0
    /\ SecIdle /\ verdict = NoVerdict
    /\ GlobalsInit /\ FilesIdle /\ LoopsIdle

\* run_loop is entered
RunLoop ==
    /\ run_pc = "idle"
    /\ run_pc' = "top"
    /\ iteration' = 0
    /\ UNCHANGED << estimated_input_tokens, attempt, func_calls, slept,
                    retry_outcome, events >>
    /\ UNCHANGED << globalVars, secVars, fileVars, rateVars, extractVars >>

\* Iterate without the continue after the rotation of the session
MutIterateRotationSends(current_tokens) ==
    /\ run_pc = "top" /\ iteration < MaxIterations
    /\ iteration' = iteration + 1
    /\ estimated_input_tokens' = current_tokens + PromptAllowance
    /\ check_and_wait(current_tokens + PromptAllowance)
    /\ attempt' = 0 /\ func_calls' = <<>> /\ slept' = <<>>
    /\ retry_outcome' = NoOutcome
    /\ IF rl_exc' # ""
       THEN run_pc' = "raised" /\ events' = << "check" >>
       ELSE IF current_tokens > MAX_CONTEXT_TOKENS
       THEN run_pc' = "send" /\ events' = << "check", "rotate" >>
       ELSE run_pc' = "send" /\ events' = << "check" >>
    /\ UNCHANGED << globalVars, secVars, fileVars, extractVars >>

\* the start of an iteration, up to the call of _retry_with_backoff: the
\* token count, check_and_wait, and the rotation of the session
Iterate(current_tokens) ==
    /\ run_pc = "top" /\ iteration < MaxIterations
    /\ iteration' = iteration + 1
    /\ estimated_input_tokens' = current_tokens + PromptAllowance
    /\ check_and_wait(current_tokens + PromptAllowance)
    /\ attempt' = 0 /\ func_calls' = <<>> /\ slept' = <<>>
    /\ retry_outcome' = NoOutcome
    /\ IF rl_exc' # ""
       THEN run_pc' = "raised" /\ events' = << "check" >>
       ELSE IF current_tokens > MAX_CONTEXT_TOKENS
       THEN run_pc' = "top" /\ events' = << "check", "rotate" >>
       ELSE run_pc' = "send" /\ events' = << "check" >>
    /\ UNCHANGED << globalVars, secVars, fileVars, extractVars >>

\* one turn of the loop of _retry_with_backoff in which func, the
\* chat's send_message, returns: the response is returned to run_loop
SendReturns ==
    /\ run_pc = "send"
    /\ func_calls' = Append(func_calls, "returned")
    /\ retry_outcome' = [kind |-> "returned", call |-> Len(func_calls) + 1]
    /\ events' = Append(events, "sent")
    /\ run_pc' = "record"
    /\ UNCHANGED << iteration, estimated_input_tokens, attempt, slept >>
    /\ UNCHANGED << globalVars, secVars, fileVars, rateVars, extractVars >>

\* SendRaises with a delay that grows by base_delay at every turn
MutSendRaisesLinearDelay ==
    /\ run_pc = "send"
    /\ func_calls' = Append(func_calls, "raised")
    /\ IF attempt = max_retries - 1
       THEN /\ retry_outcome' = [kind |-> "raised", call |-> Len(func_calls) + 1]
            /\ events' = Append(events, "failed")
            /\ clock' = clock + HardRetrySeconds
            /\ run_pc' = "top"
            /\ UNCHANGED << attempt, slept >>
       ELSE /\ slept' = Append(slept, base_delay * (attempt + 1))
            /\ clock' = clock + base_delay * (attempt + 1)
            /\ attempt' = attempt + 1
            /\ UNCHANGED << run_pc, retry_outcome, events >>
    /\ UNCHANGED << iteration, estimated_input_tokens >>
    /\ UNCHANGED << max_rpd, max_tpm, current_rpd, token_window, usage_file,
                    rl_call, rl_exc, rl_slept >>
    /\ UNCHANGED << globalVars, secVars, fileVars, extractVars >>

\* one turn of the loop of _retry_with_backoff in which func raises: the
\* sleep before the next turn, or at the last turn the exception raised
\* again, which run_loop catches and answers with its own sleep
SendRaises ==
    /\ run_pc = "send"
    /\ func_calls' = Append(func_calls, "raised")
    /\ IF attempt = max_retries - 1
       THEN /\ retry_outcome' = [kind |-> "raised", call |-> Len(func_calls) + 1]
            /\ events' = Append(events, "failed")
            /\ clock' = clock + HardRetrySeconds
            /\ run_pc' = "top"
            /\ UNCHANGED << attempt, slept >>
       ELSE /\ slept' = Append(slept, base_delay * Power(2, attempt))
            /\ clock' = clock + base_delay * Power(2, attempt)
            /\ attempt' = attempt + 1
            /\ UNCHANGED << run_pc, retry_outcome, events >>
    /\ UNCHANGED << iteration, estimated_input_tokens >>
    /\ UNCHANGED << max_rpd, max_tpm, current_rpd, token_window, usage_file,
                    rl_call, rl_exc, rl_slept >>
    /\ UNCHANGED << globalVars, secVars, fileVars, extractVars >>

\* after the response: record_request, then the test for TASK_COMPLETE,
\* which ends the loop or lets it go on
RecordAndTest(output_tokens, complete) ==
    /\ run_pc = "record"
    /\ record_request(estimated_input_tokens + output_tokens)
    /\ events' = Append(events, "record")
    /\ run_pc' = IF complete THEN "ended" ELSE "top"
    /\ UNCHANGED << iteration, estimated_input_tokens, attempt, func_calls,
                    slept, retry_outcome >>
    /\ UNCHANGED << globalVars, secVars, fileVars, extractVars >>

NextRun ==
    \/ RunLoop
    \/ \E current_tokens \in TokenCounts : Iterate(current_tokens)
    \/ SendReturns
    \/ SendRaises
    \/ \E output_tokens \in OutputTokens, complete \in BOOLEAN :
           RecordAndTest(output_tokens, complete)

SpecRun == InitRun /\ [][NextRun]_vars

\* ------------------------------------------------------------------------
\* Vocabulary of the claims
\* ------------------------------------------------------------------------

\* the call returned a verdict (it raised nothing)
Returned(v) == v.exc = ""

\* the call returned an allow verdict
Passes(v) == v.exc = "" /\ v.allowed

\* the quote a scan of s[1..n] ends inside of, "" outside every literal
RECURSIVE QuoteAfter(_, _)
QuoteAfter(s, n) ==
    IF n = 0 THEN ""
    ELSE LET q == QuoteAfter(s, n - 1)
         IN  IF q = "" THEN (IF s[n] \in Quotes THEN s[n] ELSE "")
             ELSE IF s[n] = q THEN "" ELSE q

\* position i of s holds a character that is not part of a quoted literal
Unquoted(s, i) == QuoteAfter(s, i - 1) = "" /\ s[i] \notin Quotes

\* the characters the shell's control operators ; & && | || are made of
ControlChars == {";", "&", "|"}

\* an atom that is a bare program name
IsNameAtom(a) ==
    a \notin Whitespace \cup Quotes \cup ControlChars \cup {BS, "-", "=", "/", "."}

\* Position i of s holds a whole word, a bare program name, that the shell
\* runs as a command: it is the first word of s or the first word after an
\* unquoted control operator, blanks between them or not.
AtCommandPosition(s, i) ==
    /\ IsNameAtom(s[i])
    /\ Unquoted(s, i)
    /\ i = Len(s) \/ s[i + 1] \in Whitespace \cup ControlChars
    /\ LET p == i - 1 - WsRunBack(s, i - 1)
       IN  p = 0 \/ (s[p] \in ControlChars /\ Unquoted(s, p))

\* the names extracted from each segment of split_command_segments, in order
SegmentNames(s) ==
    LET segments == split_command_segments(s)
    IN  [i \in 1..Len(segments) |-> extract_commands(segments[i])]

\* the positions of the names of a list that are not allowlisted
NotAllowlisted(names) == {i \in 1..Len(names) : names[i] \notin ALLOWED_COMMANDS}

Min(S) == CHOOSE x \in S : \A y \in S : x <= y

\* ------------------------------------------------------------------------
\* C1
\* ------------------------------------------------------------------------

\* C1: whenever a name outside ALLOWED_COMMANDS stands at a command
\* position of the command (first word, or the word after ; && || | or &,
\* with or without blanks around the operator), validate_command returns a
\* rejection, and the reason contains that name.  The reason is required
\* for the first word only, the one occurrence no other check can precede.
C1_NonAllowlistedNameRejected ==
    call = "execute_bash" =>
        \A i \in 1..Len(command) :
            (AtCommandPosition(command, i) /\ Name(command[i]) \notin ALLOWED_COMMANDS)
            => /\ Returned(verdict)
               /\ ~verdict.allowed
               /\ i = 1 + WsRun(command, 1)
                  => IsSubstring(Name(command[i]), verdict.reason)

\* ------------------------------------------------------------------------
\* C2
\* ------------------------------------------------------------------------

\* C2: validate_command allows a command only if every extracted occurrence
\* of pkill, chmod and init.sh passes its sub-validator on the segment the
\* occurrence appears in (the occurrences are those of the segments, in
\* order, whenever the segments' names make up the extracted names).
C2_EveryOccurrenceValidated ==
    (call = "execute_bash" /\ Passes(verdict)
        /\ Flatten(SegmentNames(command)) = extract_commands(command))
    => LET segments == split_command_segments(command)
       IN  \A i \in 1..Len(segments) :
             LET names == extract_commands(segments[i])
             IN  \A k \in 1..Len(names) :
                   names[k] \in COMMANDS_NEEDING_EXTRA_VALIDATION
                   => Passes(ExtraValidation(names[k], segments[i]))

\* ------------------------------------------------------------------------
\* C3
\* ------------------------------------------------------------------------

\* the extracted names of s are non-empty, all allowlisted and none of them
\* needs extra validation
OnlyPlainAllowedNames(s) ==
    LET names == extract_commands(s)
    IN  /\ names # <<>>
        /\ \A i \in 1..Len(names) :
              /\ names[i] \in ALLOWED_COMMANDS
              /\ names[i] \notin COMMANDS_NEEDING_EXTRA_VALIDATION

\* C3: a command whose extracted names are non-empty, all in
\* ALLOWED_COMMANDS and none in COMMANDS_NEEDING_EXTRA_VALIDATION gets the
\* verdict (True, "").
C3_PlainAllowedCommandsPass ==
    (call = "execute_bash" /\ OnlyPlainAllowedNames(command))
    => verdict = Allow

\* a validated command of several plain allowlisted names
C3_Witness ==
    /\ call = "execute_bash"
    /\ OnlyPlainAllowedNames(command)
    /\ Len(extract_commands(command)) >= 2
    /\ verdict = Allow

\* ------------------------------------------------------------------------
\* C4
\* ------------------------------------------------------------------------

\* C4: execute_bash hands a command string to subprocess.run only after
\* validate_command allowed exactly that string in the same call; when
\* validate_command rejects, nothing is spawned and execute_bash returns
\* "[SECURITY BLOCK] Command blocked: " followed by the unchanged reason.
C4_SpawnOnlyAfterAllow ==
    LET v == validate_command(command)
    IN  /\ spawned # <<>> => /\ call = "execute_bash"
                             /\ Passes(v)
                             /\ spawned = << command >>
        /\ (call = "execute_bash" /\ Returned(v) /\ ~v.allowed)
           => /\ spawned = <<>>
              /\ ret = << BlockPrefix >> \o v.reason

\* execute_bash blocked a command that names a program off the allowlist
C4_Witness ==
    /\ call = "execute_bash"
    /\ spawned = <<>>
    /\ ret = << BlockPrefix >> \o NotAllowedReason(Name("curl"))

\* ------------------------------------------------------------------------
\* C5
\* ------------------------------------------------------------------------

\* C5: every verdict returned by validate_command, validate_pkill_command,
\* validate_chmod_command and validate_init_script has an empty reason if
\* and only if it allows.
C5_ReasonEmptyIffAllowed ==
    (call # "none" /\ Returned(verdict))
    => (verdict.reason = <<>> <=> verdict.allowed)

\* a sub-validator called on its own returned a rejection with a reason
C5_Witness ==
    /\ call = "validate_init_script"
    /\ Returned(verdict)
    /\ ~verdict.allowed
    /\ verdict.reason # <<>>

\* ------------------------------------------------------------------------
\* C6
\* ------------------------------------------------------------------------

\* some semicolon-separated piece of s has text that shlex cannot split
SomePieceUnsplittable(s) ==
    LET pieces == ReSplit("semi", s)
    IN  \E i \in 1..Len(pieces) :
            Strip(pieces[i]) # <<>> /\ ~ShlexSplit(Strip(pieces[i])).ok

\* C6: for every input string validate_command returns a verdict and raises
\* no exception, and an input with a piece that cannot be tokenized is
\* rejected.
C6_NoExceptionEscapes ==
    call = "execute_bash" =>
        /\ Returned(verdict)
        /\ SomePieceUnsplittable(command) => ~verdict.allowed

\* ------------------------------------------------------------------------
\* C7
\* ------------------------------------------------------------------------

EmptyCommandReason == << "Empty command" >>

CouldNotParseReason(s) == << "Could not parse command: " >> \o s

\* C7 as claimed: the empty string and every whitespace-only string are
\* rejected with the reason "Empty command".
C7_BlankInputIsEmptyCommand ==
    (call = "execute_bash" /\ Strip(command) = <<>>)
    => verdict = Reject(EmptyCommandReason)

\* C7 as the code has it: the empty string is rejected with the reason
\* "Empty command"; a non-empty string of whitespace only is rejected with
\* the reason "Could not parse command: " followed by the string.
C7_EmptyAndBlankInput ==
    call = "execute_bash" =>
        /\ command = <<>> => verdict = Reject(EmptyCommandReason)
        /\ (command # <<>> /\ Strip(command) = <<>>)
           => verdict = Reject(CouldNotParseReason(command))

\* a string of several blanks was validated
C7_Witness ==
    /\ call = "execute_bash"
    /\ Len(command) >= 2
    /\ Strip(command) = <<>>
    /\ verdict = Reject(CouldNotParseReason(command))

\* ------------------------------------------------------------------------
\* C8
\* ------------------------------------------------------------------------

\* C8: when word splitting fails for one semicolon-separated segment,
\* extract_commands returns the empty list for the whole input, whatever
\* the earlier segments held, and validate_command returns
\* (False, "Could not parse command: " + command).
C8_SplitFailureAbortsExtraction ==
    (call = "execute_bash" /\ SomePieceUnsplittable(command))
    => /\ extract_commands(command) = <<>>
       /\ verdict = Reject(CouldNotParseReason(command))

\* the failing segment comes after a segment that holds a command name
C8_Witness ==
    /\ call = "execute_bash"
    /\ LET pieces == ReSplit("semi", command)
       IN  \E i, j \in 1..Len(pieces) :
              /\ i < j
              /\ ShlexSplit(Strip(pieces[i])).ok
              /\ WalkTokens(ShlexSplit(Strip(pieces[i])).tokens, TRUE) # <<>>
              /\ ~ShlexSplit(Strip(pieces[j])).ok
    /\ verdict = Reject(CouldNotParseReason(command))

\* ------------------------------------------------------------------------
\* C9
\* ------------------------------------------------------------------------

\* C9 as claimed: when extract_commands yields a name that is not in
\* ALLOWED_COMMANDS, validate_command returns (False, "Command '<name>' is
\* not in the allowed commands list") for the first such name.
C9_FirstNotAllowedNameIsReason ==
    call = "execute_bash" =>
        LET names == extract_commands(command)
        IN  NotAllowlisted(names) # {}
            => verdict = Reject(NotAllowedReason(names[Min(NotAllowlisted(names))]))

\* the positions before k of the names whose sub-validator, run on the
\* segment validate_command finds for them, does not pass
FailingBefore(s, names, k) ==
    {i \in 1..(k - 1) :
        /\ names[i] \in COMMANDS_NEEDING_EXTRA_VALIDATION
        /\ ~Passes(ExtraValidation(names[i],
                     FindSegment(names[i], split_command_segments(s), s)))}

\* C9 as the code has it: when extract_commands yields a name that is not in
\* ALLOWED_COMMANDS, validate_command never allows the command; it returns
\* the "not in the allowed commands list" reason of the first such name
\* unless an earlier extracted name of COMMANDS_NEEDING_EXTRA_VALIDATION did
\* not pass its sub-validator, and then the call ends as the first such
\* sub-validator did.
C9_NotAllowedNameRejects ==
    call = "execute_bash" =>
        LET names == extract_commands(command)
            bad == NotAllowlisted(names)
            k == Min(bad)
            failing == FailingBefore(command, names, k)
            f == Min(failing)
        IN  bad # {}
            => /\ ~Passes(verdict)
               /\ failing = {} => verdict = Reject(NotAllowedReason(names[k]))
               /\ failing # {}
                  => verdict = ExtraValidation(names[f],
                         FindSegment(names[f], split_command_segments(command), command))

\* the name off the allowlist follows a segment whose command passed its
\* sub-validator
C9_Witness ==
    /\ call = "execute_bash"
    /\ LET names == extract_commands(command)
       IN  /\ Len(names) >= 2
           /\ names[1] \in COMMANDS_NEEDING_EXTRA_VALIDATION
           /\ NotAllowlisted(names) # {}
           /\ Min(NotAllowlisted(names)) = 2
           /\ verdict = Reject(NotAllowedReason(names[2]))

\* ------------------------------------------------------------------------
\* C10
\* ------------------------------------------------------------------------

\* C10: validate_pkill_command allows a segment if and only if it
\* tokenizes, has a token after the first that does not start with "-", and
\* the last such token (its first whitespace-separated word when it holds a
\* space) is node, npm, npx, vite or next; with no such token it rejects
\* with "pkill requires a process name", with another target it rejects
\* with the reason that names the allowed dev processes.
C10_PkillVerdict ==
    call = "validate_pkill_command" =>
        LET split == ShlexSplit(command)
            tokens == split.tokens
            args == NonFlags(Tail(tokens))
            last == args[Len(args)]
            target == IF Contains(last, SP) THEN FirstWord(last) ELSE last
            tokenized == split.ok /\ tokens # <<>>
        IN  /\ Returned(verdict)
            /\ verdict.allowed
               <=> (tokenized /\ args # <<>> /\ target \in allowed_process_names)
            /\ (tokenized /\ args = <<>>)
               => verdict.reason = << "pkill requires a process name" >>
            /\ (tokenized /\ args # <<>> /\ target \notin allowed_process_names)
               => verdict.reason = PkillTargetReason

\* ------------------------------------------------------------------------
\* C11
\* ------------------------------------------------------------------------

\* the mode is zero or more of u, g, o, a followed by exactly +x
ExactlyPlusX(mode) ==
    /\ Len(mode) >= 1
    /\ mode[Len(mode)] = "+x"
    /\ \A i \in 1..(Len(mode) - 1) : mode[i] \in {"u", "g", "o", "a"}

\* the segment tokenizes and its first token is the command name chmod
IsChmodSegment(s) ==
    LET split == ShlexSplit(s)
    IN  split.ok /\ split.tokens # <<>> /\ split.tokens[1] = Name("chmod")

\* C11: on a segment whose command name is chmod, validate_chmod_command
\* allows if and only if the tokens after the command name hold no token
\* starting with "-", hold at least one token, and the first of them is
\* zero or more of u, g, o, a followed by exactly +x; no target file is
\* required.
C11_ChmodVerdict ==
    (call = "validate_chmod_command" /\ IsChmodSegment(command)) =>
        LET rest == Tail(ShlexSplit(command).tokens)
        IN  /\ Returned(verdict)
            /\ verdict.allowed
               <=> /\ \A i \in 1..Len(rest) : ~StartsWith(rest[i], "-")
                   /\ rest # <<>>
                   /\ ExactlyPlusX(rest[1])

\* ------------------------------------------------------------------------
\* C12, C13
\* ------------------------------------------------------------------------

\* the string ends with the suffix
EndsWith(s, suffix) ==
    /\ Len(s) >= Len(suffix)
    /\ Slice(s, Len(s) - Len(suffix) + 1, Len(s)) = suffix

DotSlashInitSh == << ".", "/", "init.sh" >>

\* the segment tokenizes into at least one token
HasFirstToken(s) == ShlexSplit(s).ok /\ ShlexSplit(s).tokens # <<>>

FirstToken(s) == ShlexSplit(s).tokens[1]

C13_OnlyDotSlashInitSh ==
    ( /\ call = "validate_init_script"
      /\ HasFirstToken(command)
      /\ FirstToken(command) # DotSlashInitSh )
        => (Returned(verdict) /\ ~verdict.allowed)

\* ------------------------------------------------------------------------
\* C14
\* ------------------------------------------------------------------------

\* every quote of the string is closed, and it holds no backslash
BalancedQuotes(s) == QuoteAfter(s, Len(s)) = "" /\ ~Contains(s, BS)

\* an operator &&, || or ; that is not part of a quoted literal starts at
\* position p: the number of characters it takes, 0 if there is none
UnquotedOperatorAt(s, p) ==
    IF ~Unquoted(s, p) THEN 0
    ELSE IF s[p] = ";" THEN 1
    ELSE IF p < Len(s) /\ s[p] \in {"&", "|"} /\ s[p + 1] = s[p] THEN 2
    ELSE 0

\* the pieces of s between its unquoted operators, from position cur on
RECURSIVE CutUnquoted(_, _, _)
CutUnquoted(s, cur, p) ==
    IF p > Len(s) THEN << Slice(s, cur, Len(s)) >>
    ELSE LET n == UnquotedOperatorAt(s, p)
         IN  IF n > 0
             THEN << Slice(s, cur, p - 1) >> \o CutUnquoted(s, p + n, p + n)
             ELSE CutUnquoted(s, cur, p + 1)

\* C14: split_command_segments never takes an operator (&&, || or ;) inside
\* a quoted literal for a separator: for an input with balanced quotes every
\* returned segment has balanced quotes, and the segments are the trimmed,
\* non-empty pieces between the unquoted operators.
C14_QuotedOperatorsNotSeparators ==
    (call = "split_command_segments" /\ BalancedQuotes(command)) =>
        /\ \A i \in 1..Len(result) : BalancedQuotes(result[i])
        /\ result = StripNonEmpty(CutUnquoted(command, 1, 1))

\* ------------------------------------------------------------------------
\* C15
\* ------------------------------------------------------------------------

\* the string holds none of the operators &&, || and ;
NoOperators(s) ==
    /\ ~Contains(s, ";")
    /\ \A p \in 1..(Len(s) - 1) : ~(s[p] \in {"&", "|"} /\ s[p + 1] = s[p])

\* the strings of the list occur in s one after the other, from position
\* from on, without overlapping
RECURSIVE OccurInOrder(_, _, _)
OccurInOrder(segs, s, from) ==
    IF segs = <<>> THEN TRUE
    ELSE LET seg == Head(segs)
         IN  \E p \in from..(Len(s) - Len(seg) + 1) :
                 /\ Slice(s, p, p + Len(seg) - 1) = seg
                 /\ OccurInOrder(Tail(segs), s, p + Len(seg))

\* the segments are non-empty, trimmed and in their left-to-right order
SegmentsWellFormed(segs, s) ==
    /\ \A i \in 1..Len(segs) : segs[i] # <<>> /\ Strip(segs[i]) = segs[i]
    /\ OccurInOrder(segs, s, 1)

\* C15 as stated: for every input that holds none of the operators &&, ||
\* and ; split_command_segments returns exactly one segment, the input with
\* leading and trailing whitespace removed; in every case the segments are
\* non-empty, trimmed and in their original left-to-right order.
C15_NoOperatorOneSegment ==
    call = "split_command_segments" =>
        /\ NoOperators(command) => result = << Strip(command) >>
        /\ SegmentsWellFormed(result, command)

\* C15: for every input that holds none of the operators &&, || and ; and
\* at least one character that is not whitespace, split_command_segments
\* returns exactly one segment, the input with leading and trailing
\* whitespace removed; for an empty or whitespace-only input it returns no
\* segment; in every case the segments are non-empty, trimmed and in their
\* original left-to-right order.
C15_NonBlankNoOperatorOneSegment ==
    call = "split_command_segments" =>
        /\ (NoOperators(command) /\ Strip(command) # <<>>)
               => result = << Strip(command) >>
        /\ Strip(command) = <<>> => result = <<>>
        /\ SegmentsWellFormed(result, command)

\* an input without operators that starts and ends with a blank came back
\* as its one trimmed segment
C15_Witness ==
    /\ call = "split_command_segments"
    /\ command = << SP, "ls", SP, "curl", SP >>
    /\ result = << << "ls", SP, "curl" >> >>

\* ------------------------------------------------------------------------
\* C16
\* ------------------------------------------------------------------------

\* C16: the command names extract_commands returns for a string are, in
\* the same order, the names it returns for the segments of
\* split_command_segments taken one after the other.
C16_SegmentsGiveSameNames ==
    call = "extract_commands" => result = Flatten(SegmentNames(command))

\* ------------------------------------------------------------------------
\* C17
\* ------------------------------------------------------------------------

ResolvedLocation(p) == Resolve(JoinPath(project_dir, ParsePath(p))).parts

\* the location is the project directory or lies below it
InsideProject(loc) == StartsWithStr(loc, project_dir.parts)

\* C18: write_file and list_directory act on a path only when it resolves
\* to the project directory or to a location below it; for a path that
\* resolves elsewhere, a sibling directory whose name starts with the
\* project directory's name included, they return "Error: Access denied
\* (path outside project directory)", write no file, make no directory and
\* read no directory.
C18_FileToolsStayInsideProject ==
    [][ ( /\ tool' \in {"write_file", "list_directory"}
          /\ ~InsideProject(ResolvedLocation(path)) )
            => /\ tool_ret' = AccessDenied
               /\ files' = files /\ dirs' = dirs /\ listed' = listed ]_vars

\* the path names a regular file inside the project directory
RegularFileInProject(p) ==
    /\ IsFile(JoinPath(project_dir, ParsePath(p)).parts, dirs, files)
    /\ InsideProject(ResolvedLocation(p))

\* C19: read_file with the default line range, called on an existing
\* regular file inside the project directory, returns the content of the
\* file and not an error string, and build_context includes every key
\* file that exists.
C19_ReadFileReturnsContent ==
    /\ (tool = "read_file" /\ RegularFileInProject(path))
           => tool_ret = files[ResolvedLocation(path)]
    /\ tool = "build_context"
           => \A i \in 1..Len(key_files) :
                  RegularFileInProject(key_files[i])
                      => \E j \in 1..Len(context) : context[j] = key_files[i]

\* a step of check_and_wait taken when the daily count has reached max_rpd
DailyLimitReachedCall ==
    /\ \E estimated_tokens \in 1..MaxTokens : CheckAndWait(estimated_tokens)
    /\ current_rpd >= max_rpd

\* the call raised the daily-limit exception and neither touched the token
\* window nor slept
RaisedBeforeWindow ==
    /\ rl_exc' = DailyLimit
    /\ token_window' = token_window
    /\ clock' = clock
    /\ rl_slept' = 0

\* C20: check_and_wait raises the daily-limit exception whenever
\* current_rpd >= max_rpd, before it touches the token window or sleeps;
\* hence, when each record_request follows a check_and_wait that returned
\* normally, current_rpd never exceeds max_rpd.
C20_DailyLimitNeverExceeded ==
    /\ [][ DailyLimitReachedCall => RaisedBeforeWindow ]_vars
    /\ [](current_rpd <= max_rpd)

\* C20, amended: check_and_wait raises the daily-limit exception whenever
\* current_rpd >= max_rpd, before it touches the token window or sleeps;
\* hence, when each record_request follows a check_and_wait that returned
\* normally, no call raises current_rpd above max_rpd: current_rpd never
\* decreases and every call that changes it leaves it at most max_rpd, so
\* it exceeds max_rpd only when the count loaded from usage_stats.json at
\* construction already did.
C20_DailyLimitNeverRaisedAbove ==
    [][ /\ DailyLimitReachedCall => RaisedBeforeWindow
        /\ current_rpd' >= current_rpd
        /\ current_rpd' > current_rpd => current_rpd' <= max_rpd ]_vars

\* the object recorded requests up to max_rpd and the next check_and_wait
\* raised the daily-limit exception
C20_Witness ==
    /\ rl_call = "check_and_wait" /\ rl_exc = DailyLimit
    /\ max_rpd >= 2
    /\ current_rpd = max_rpd
    /\ Len(token_window) = max_rpd

\* the tokens recorded in the last 60 seconds plus estimated_tokens exceed
\* max_tpm
OverTokenLimit(estimated_tokens) ==
    SumTokens(Clean(token_window, clock)) + estimated_tokens > max_tpm

\* C21: whenever current_rpd < max_rpd and the tokens recorded in the last
\* 60 seconds plus estimated_tokens exceed max_tpm, check_and_wait sleeps
\* and then returns normally; the only exception it ever raises is the
\* daily-request-limit exception, also when the token window is empty.
C21_OnlyDailyLimitRaised ==
    [][ \A estimated_tokens \in 1..MaxTokens :
            CheckAndWait(estimated_tokens)
                => /\ rl_exc' \in {"", DailyLimit}
                   /\ (current_rpd < max_rpd /\ OverTokenLimit(estimated_tokens))
                          => (rl_exc' = "" /\ rl_slept' > 0) ]_vars

\* a token that can be taken as a command: no operator, no shell keyword,
\* no flag and no assignment
Eligible(token) ==
    /\ token \notin OperatorTokens
    /\ token \notin KeywordTokens
    /\ ~StartsWith(token, "-")
    /\ ~(Contains(token, "=") /\ ~StartsWith(token, "="))

\* no eligible token stands between the last operator token before
\* position j and position j
FirstSinceOperator(toks, j) ==
    \A k \in 1..(j - 1) :
        Eligible(toks[k]) => \E m \in (k + 1)..(j - 1) : toks[m] \in OperatorTokens

\* the basenames of the eligible tokens that are the first since the start
\* or since an operator token, in order of appearance
ExpectedNames(toks) ==
    LET first == SelectSeq([j \in 1..Len(toks) |-> j],
                           LAMBDA j : Eligible(toks[j]) /\ FirstSinceOperator(toks, j))
    IN  [i \in 1..Len(first) |-> Basename(toks[first[i]])]

IsSuffix(t, s) ==
    Len(t) <= Len(s) /\ SubSeq(s, Len(s) - Len(t) + 1, Len(s)) = t

\* the tokens the loop has gone through
TokensDone == SubSeq(ex_tokens, 1, ex_pos)

\* C22: within one semicolon segment expect_command starts true, becomes
\* false exactly when a name is emitted and becomes true again only on an
\* operator token; so between two consecutive operator tokens at most one
\* name is emitted, each emitted name is the basename of the first eligible
\* token after the operator, and the names come in order of appearance with
\* duplicates kept.
C22_ExpectCommandFlag ==
    /\ [][ /\ (ex_pc = "segments" /\ ex_pc' = "tokens") => expect_command'
           /\ (expect_command /\ ~expect_command')
                  <=> (ex_commands' # ex_commands)
           /\ (ex_commands' # ex_commands)
                  => /\ ex_pc = "tokens" /\ Eligible(NextToken)
                     /\ ex_commands' = Append(ex_commands, Basename(NextToken))
           /\ (ex_pc = "tokens" /\ ~expect_command /\ expect_command')
                  => NextToken \in OperatorTokens ]_vars
    /\ [](ex_pc = "tokens"
            => /\ IsSuffix(ExpectedNames(TokensDone), ex_commands)
               /\ expect_command
                      <=> \A j \in 1..ex_pos :
                              Eligible(ex_tokens[j])
                                  => \E m \in (j + 1)..ex_pos :
                                         ex_tokens[m] \in OperatorTokens)

\* the loop went through two commands joined by an operator token and
\* emitted the same name twice
C22_Witness ==
    /\ ex_pc = "tokens" /\ ex_pos = Len(ex_tokens)
    /\ \E m \in 2..(ex_pos - 1) : ex_tokens[m] \in OperatorTokens
    /\ ex_commands = << Name("ls"), Name("ls") >>
    /\ ~expect_command

\* the token has a = at a position other than the first
HasLaterEquals(token) == \E i \in 2..Len(token) : token[i] = "="

\* the token has a = and does not start with one
IsAssignment(token) == Contains(token, "=") /\ ~StartsWith(token, "=")

FooBarNode == << "FOO", "=", "bar", SP, "node", SP, "script.js" >>

\* C23: a shell keyword token, a token starting with - and a token
\* containing = at a position other than 0 are never emitted as command
\* names and leave expect_command unchanged, whatever its value; so an
\* assignment prefix is skipped and the next eligible token is taken
\* (FOO=bar node script.js yields only node).
C23_SkippedTokensLeaveFlag ==
    /\ [][ ( /\ ExToken
             /\ \/ NextToken \in KeywordTokens
                \/ StartsWith(NextToken, "-")
                \/ HasLaterEquals(NextToken) )
               => /\ ex_commands' = ex_commands
                  /\ expect_command' = expect_command ]_vars
    /\ []((ex_pc = "done" /\ command = FooBarNode)
             => result = << Name("node") >>)

\* C23, amended: a shell keyword token, a token starting with - and a token
\* that contains = and does not start with = are never emitted as command
\* names and leave expect_command unchanged, whatever its value; so an
\* assignment prefix is skipped and the next eligible token is taken
\* (FOO=bar node script.js yields only node).  A token that starts with =
\* is taken as a command name also when it holds a second =.
C23_SkippedUnlessLeadingEquals ==
    /\ [][ /\ ( /\ ExToken
                /\ \/ NextToken \in KeywordTokens
                   \/ StartsWith(NextToken, "-")
                   \/ IsAssignment(NextToken) )
                  => /\ ex_commands' = ex_commands
                     /\ expect_command' = expect_command
           /\ ( /\ ExToken
                /\ StartsWith(NextToken, "=")
                /\ expect_command )
                  => ex_commands' = Append(ex_commands, Basename(NextToken))
         ]_vars
    /\ []((ex_pc = "done" /\ command = FooBarNode)
             => result = << Name("node") >>)

\* the loop skipped an assignment with the flag up, took a name and then
\* skipped a flag token with the flag down
C23_Witness ==
    /\ ex_pc = "tokens" /\ ex_pos = 3 /\ Len(ex_tokens) = 3
    /\ IsAssignment(ex_tokens[1])
    /\ StartsWith(ex_tokens[3], "-")
    /\ ex_commands = << Name("ls") >>
    /\ ~expect_command

\* the name is among the names extracted from the string
Extracts(s, name) ==
    \E i \in 1..Len(extract_commands(s)) : extract_commands(s)[i] = name

\* C24: for every command string and every extracted command name in
\* COMMANDS_NEEDING_EXTRA_VALIDATION, at least one segment returned by
\* split_command_segments has an extraction containing that name, so the
\* sub-validator receives the text of one segment and the whole-command
\* fallback is never used.
C24_FlaggedNameHasSegment ==
    call = "execute_bash"
    => \A name \in extra_validation_commands :
           Extracts(command, name)
               => /\ \E k \in 1..Len(split_command_segments(command)) :
                         Extracts(split_command_segments(command)[k], name)
                  /\ \E k \in 1..Len(split_command_segments(command)) :
                         FindSegment(name, split_command_segments(command), command)
                             = split_command_segments(command)[k]

\* what the loop of validate_command finds for the i-th extracted command
CheckOf(s, i) ==
    LET cmd == extract_commands(s)[i]
    IN  IF cmd \notin allowed_commands THEN Reject(NotAllowedReason(cmd))
        ELSE IF cmd \in extra_validation_commands
        THEN ExtraValidation(cmd, FindSegment(cmd, split_command_segments(s), s))
        ELSE Allow

\* the positions of the extracted commands that do not pass their check
FailedChecks(s) ==
    { i \in 1..Len(extract_commands(s)) : CheckOf(s, i) # Allow }

\* the outcome is that of the first check that does not pass, and ALLOWED
\* when every check passes
InExtractionOrder(s, v) ==
    IF FailedChecks(s) = {} THEN v = Allow
    ELSE \E i \in FailedChecks(s) :
             /\ \A j \in FailedChecks(s) : i <= j
             /\ v = CheckOf(s, i)

\* C25: validate_command ends on every input in exactly one of two
\* outcomes, ALLOWED or REJECTED with a reason; the extracted commands are
\* checked one at a time in extraction order, the first rejection ends the
\* run with no later command checked, and ALLOWED is reached only after the
\* last extracted command has been checked.
C25_TwoOutcomesInOrder ==
    call = "execute_bash"
    => /\ verdict.exc = ""
       /\ verdict.allowed \/ verdict.reason # <<>>
       /\ extract_commands(command) # <<>> => InExtractionOrder(command, verdict)

\* the part of C25 that concerns the order alone
C25_OrderAlone ==
    (call = "execute_bash" /\ extract_commands(command) # <<>>)
        => InExtractionOrder(command, verdict)

\* the calls of func that raised
FailedCalls == { i \in 1..Len(func_calls) : func_calls[i] = "raised" }

\* C26: _retry_with_backoff calls func at most 5 times; it returns the
\* result of the first call that does not raise and makes no further call;
\* after the 1st, 2nd, 3rd and 4th failed calls it sleeps 2, 4, 8 and 16
\* seconds before the next call; after a 5th failed call it raises that
\* call's exception again without sleeping.
C26_RetrySchedule ==
    /\ Len(func_calls) <= 5
    /\ \A i \in 1..(Len(func_calls) - 1) : func_calls[i] = "raised"
    /\ slept = SubSeq(<< 2, 4, 8, 16 >>, 1, Min({Cardinality(FailedCalls), 4}))
    /\ retry_outcome.kind = "returned"
           <=> (func_calls # <<>> /\ func_calls[Len(func_calls)] = "returned")
    /\ retry_outcome.kind = "raised" <=> Cardinality(FailedCalls) = 5
    /\ retry_outcome.kind # "none" => retry_outcome.call = Len(func_calls)

\* func failed five times: four sleeps, then the exception of the fifth call
C26_Witness ==
    /\ retry_outcome = [kind |-> "raised", call |-> 5]
    /\ slept = << 2, 4, 8, 16 >>
    /\ Cardinality(FailedCalls) = 5

\* how often the event stands in the list
Count(evs, e) == Cardinality({ i \in 1..Len(evs) : evs[i] = e })

BareInvocation(s) ==
    /\ s # <<>> /\ Name(s[1]) \in allowed_commands
    /\ Len(s) > 1 => s[2] = SP

\* the same command with its name reached as ./c and as /dir/c
DotSlashed(s) == << ".", "/" >> \o s
Prefixed(s) == << "/", "dir", "/" >> \o s

====
